---- MODULE Spec2Model ----
(***************************************************************************)
(* A model of the polymorph shape-morphing kernel (crate polymorpher):     *)
(* DoubleMapper, the morph sweep of Morph::match_morph, Morph::as_cubics   *)
(* and the flattening done by RoundedPolygon::new.                         *)
(*                                                                         *)
(* Numbers.  The program computes with f32.  A progress value is modelled  *)
(* as a fixed-point number: the integer p stands for p / ONE, so ONE is    *)
(* 1.0.  Sums and differences are exact; the one product-quotient of       *)
(* linear_map is rounded down to the grid.  The program's thresholds       *)
(* (DISTANCE_EPSILON, ANGLE_EPSILON, the 0.001 of linear_map, the tests'   *)
(* EPSILON) are the same fractions of ONE as in the source.                *)
(***************************************************************************)
EXTENDS Integers, Sequences, FiniteSets, TLC

\* 1.0 on the fixed-point grid (resolution 1e-7, about one f32 ulp below 1.0)
ONE == 10 * 1000 * 1000

HALF == ONE \div 2

\* geometry.rs: DISTANCE_EPSILON = 1e-4
DISTANCE_EPSILON == ONE \div 10000

\* geometry.rs: ANGLE_EPSILON = 1e-6
ANGLE_EPSILON == ONE \div 1000000

\* mapper.rs: the literal 0.001 below which linear_map takes a segment for degenerate
SEGMENT_MIN == ONE \div 1000

\* tests/mapping.rs: EPSILON = 1e-4
EPSILON == ONE \div 10000

\* A sequence read with the source's 0-based index
At(s, i) == s[i + 1]

Abs(x) == IF x < 0 THEN -x ELSE x

Min(a, b) == IF a <= b THEN a ELSE b

\* <<q, r>> with a * b = q * c + r and 0 <= r < c, computed without ever
\* forming a * b (TLC's integers are 32 bits wide)
RECURSIVE MulDivQR(_, _, _)
MulDivQR(a, b, c) ==
    IF b = 0 THEN <<0, 0>>
    ELSE LET h == MulDivQR(a, b \div 2, c)
             t == 2 * h[2] + (b % 2) * a
         IN  <<2 * h[1] + (t \div c), t % c>>

\* floor(a * b / c) for a, b >= 0 and c > 0
MulDiv(a, b, c) == MulDivQR(a % c, b, c)[1] + (a \div c) * b

\* util::positive_modulo(x, 1.0): the representative of x in [0, 1)
positive_modulo(x) == x % ONE

\* util::progress_in_range
progress_in_range(progress, progress_from, progress_to) ==
    IF progress_to >= progress_from
    THEN progress_from <= progress /\ progress <= progress_to
    ELSE progress >= progress_from \/ progress <= progress_to

\* util::progress_distance
progress_distance(p1, p2) ==
    LET value == Abs(p1 - p2) IN Min(value, ONE - value)

(***************************************************************************)
(* DoubleMapper (mapper.rs)                                                *)
(***************************************************************************)

\* The loop of validate_progress from index i on: "ok" when no assertion
\* fails, else the name of the first assertion that fails.
RECURSIVE validate_from(_, _, _, _)
validate_from(p, i, prev, wraps) ==
    IF i = Len(p) THEN "ok"
    ELSE LET curr == At(p, i)
             w    == IF curr < prev THEN wraps + 1 ELSE wraps
         IN  IF ~(0 <= curr /\ curr < ONE) THEN "range"
             ELSE IF ~(progress_distance(curr, prev) > DISTANCE_EPSILON) THEN "repeat"
             ELSE IF ~(w <= 1) THEN "wrap"
             ELSE validate_from(p, i + 1, curr, w)

\* A variant of validate_progress that starts prev at 0.0, not at the last value
validate_progress_prev_zero(p) == validate_from(p, 0, 0, 0)

\* validate_progress: prev starts at the last value (0.0 for an empty slice)
validate_progress(p) ==
    validate_from(p, 0, IF Len(p) = 0 THEN 0 ELSE At(p, Len(p) - 1), 0)

source_of(m) == [i \in 1..Len(m) |-> m[i][1]]

target_of(m) == [i \in 1..Len(m) |-> m[i][2]]

\* DoubleMapper::new: the outcome of the two validations, source first
new_outcome(m) ==
    IF validate_progress(source_of(m)) # "ok" THEN validate_progress(source_of(m))
    ELSE validate_progress(target_of(m))

\* DoubleMapper::identity
identity_mappings == <<<<0, 0>>, <<HALF, HALF>>>>

\* The find of linear_map: the first index whose segment holds x, else 0
RECURSIVE find_segment(_, _, _)
find_segment(x_values, x, it) ==
    IF it = Len(x_values) THEN 0
    ELSE IF progress_in_range(x, At(x_values, it), At(x_values, (it + 1) % Len(x_values)))
         THEN it
         ELSE find_segment(x_values, x, it + 1)

\* What a call that may abort yields.
Value(v) == [ok |-> TRUE, value |-> v, why |-> "none"]

\* Aborted("range"): the assertion on the progress argument failed;
\* Aborted("empty"): an index was taken modulo the length of an empty mapper
Aborted(why) == [ok |-> FALSE, value |-> 0, why |-> why]

\* A variant of linear_map that interpolates from the end of the segment
linear_map_from_end(x_values, y_values, x) ==
    IF ~(0 <= x /\ x <= ONE) THEN Aborted("range")
    ELSE IF Len(x_values) = 0 THEN Aborted("empty")
    ELSE LET n == Len(x_values)
             segment_start_index == find_segment(x_values, x, 0)
             segment_end_index == (segment_start_index + 1) % n
             x0 == At(x_values, segment_start_index)
             y0 == At(y_values, segment_end_index)
             segment_size_x == positive_modulo(At(x_values, segment_end_index) - x0)
             segment_size_y == positive_modulo(At(y_values, segment_end_index) - y0)
         IN  IF segment_size_x < SEGMENT_MIN
             THEN Value(positive_modulo(y0 + segment_size_y \div 2))
             ELSE Value(positive_modulo(
                      y0 + MulDiv(segment_size_y, positive_modulo(x - x0), segment_size_x)))

\* linear_map
linear_map(x_values, y_values, x) ==
    IF ~(0 <= x /\ x <= ONE) THEN Aborted("range")
    ELSE IF Len(x_values) = 0 THEN Aborted("empty")
    ELSE LET n == Len(x_values)
             segment_start_index == find_segment(x_values, x, 0)
             segment_end_index == (segment_start_index + 1) % n
             x0 == At(x_values, segment_start_index)
             y0 == At(y_values, segment_start_index)
             segment_size_x == positive_modulo(At(x_values, segment_end_index) - x0)
             segment_size_y == positive_modulo(At(y_values, segment_end_index) - y0)
         IN  IF segment_size_x < SEGMENT_MIN
             THEN Value(positive_modulo(y0 + segment_size_y \div 2))
             ELSE Value(positive_modulo(
                      y0 + MulDiv(segment_size_y, positive_modulo(x - x0), segment_size_x)))

\* DoubleMapper::map
map(dm, x) == linear_map(dm.source_values, dm.target_values, x)

\* DoubleMapper::map_back
map_back(dm, x) == linear_map(dm.target_values, dm.source_values, x)

(***************************************************************************)
(* Points and cubics with coordinates (cubic.rs).  A point is <<x, y>>, a  *)
(* cubic the sequence <<anchor0, control0, control1, anchor1>> of its      *)
(* points.  A coordinate counts units of 1e-5.                             *)
(***************************************************************************)

\* 1.0 as a coordinate
COORD_ONE == 100 * 1000

\* DISTANCE_EPSILON as a coordinate
COORD_EPSILON == COORD_ONE \div 10000

anchor0(c) == c[1]

control0(c) == c[2]

control1(c) == c[3]

anchor1(c) == c[4]

\* Point::lerp(other, t) of one coordinate, t a progress: (1 - t) * a + t * b
lerp_coordinate(a, b, t) == MulDiv(a, ONE - t, ONE) + MulDiv(b, t, ONE)

\* Point::lerp
lerp(p, q, t) == <<lerp_coordinate(p[1], q[1], t), lerp_coordinate(p[2], q[2], t)>>

\* Cubic::straight_line: the controls are lerp(start, end, 1/3) and lerp(start, end, 2/3)
straight_line(start, end) ==
    <<start,
      <<(2 * start[1] + end[1]) \div 3, (2 * start[2] + end[2]) \div 3>>,
      <<(start[1] + 2 * end[1]) \div 3, (start[2] + 2 * end[2]) \div 3>>,
      end>>

\* Cubic::zero_length
zero_length(c) ==
    /\ Abs(anchor0(c)[1] - anchor1(c)[1]) < COORD_EPSILON
    /\ Abs(anchor0(c)[2] - anchor1(c)[2]) < COORD_EPSILON

\* Cubic::split(0.5), one coordinate k of each of the points
split_half_coordinate(c, k) ==
    LET a0 == anchor0(c)[k]
        c0 == control0(c)[k]
        c1 == control1(c)[k]
        a1 == anchor1(c)[k]
        point_on_curve == (a0 + 3 * c0 + 3 * c1 + a1) \div 8
    IN  <<<<a0, (a0 + c0) \div 2, (c1 + a0 + 2 * c0) \div 4, point_on_curve>>,
          <<point_on_curve, (a1 + c0 + 2 * c1) \div 4, (c1 + a1) \div 2, a1>>>>

\* Cubic::split(0.5): the two halves
split_half(c) ==
    LET x == split_half_coordinate(c, 1)
        y == split_half_coordinate(c, 2)
    IN  <<[j \in 1..4 |-> <<x[1][j], y[1][j]>>], [j \in 1..4 |-> <<x[2][j], y[2][j]>>]>>

\* The cubic Morph::as_cubics would push last if it left the end of
\* last_cubic where the lerp put it
stitching_cubic_unstitched(last, first_) == last

\* The cubic Morph::as_cubics pushes last: Cubic::new(last_cubic.anchor0(),
\* last_cubic.control0(), last_cubic.control1(), first_cubic.anchor0())
stitching_cubic(last, first_) == <<anchor0(last), control0(last), control1(last), anchor0(first_)>>

\* The cubic RoundedPolygon::new would push last if it left last_cubic alone
closing_cubic_unclosed(last, first_) == last

\* The cubic RoundedPolygon::new pushes last
closing_cubic(last, first_) == <<anchor0(last), control0(last), control1(last), anchor0(first_)>>

\* Feature::corner and Feature::edge
corner(feature_cubics, convex) == [ty |-> "Corner", convex |-> convex, cubics |-> feature_cubics]

edge(feature_cubics) == [ty |-> "Edge", convex |-> FALSE, cubics |-> feature_cubics]

(***************************************************************************)
(* MeasuredPolygon (measured_polygon.rs).  A Cubic is represented by the   *)
(* part of a polygon's cubic it covers: [src, lo, hi] is the part of cubic *)
(* number src between the fractions lo and hi of its measure, so the whole *)
(* cubic is [src, 0, ONE], and two cubics are equal when they cover the    *)
(* same part.                                                              *)
(***************************************************************************)

WholeCubic(src) == [src |-> src, lo |-> 0, hi |-> ONE]

\* MeasuredCubic::new (the measured size is not kept: the measurer is asked
\* for a fraction of it only)
MeasuredCubic(cubic, start_outline_progress, end_outline_progress) ==
    [cubic |-> cubic,
     start_outline_progress |-> start_outline_progress,
     end_outline_progress |-> end_outline_progress]

Clamp(x, lo, hi) == IF x < lo THEN lo ELSE IF x > hi THEN hi ELSE x

\* MeasuredCubic::cut_at_progress: the two measured cubics <<head, tail>>.
\* A cubic of no width gives relative_progress 0/0, which the measurer
\* answers with t = 1.
cut_at_progress(mc, cut_outline_progress) ==
    LET bounded_cut_outline_progress ==
            Clamp(cut_outline_progress, mc.start_outline_progress, mc.end_outline_progress)
        outline_progress_size == mc.end_outline_progress - mc.start_outline_progress
        progress_from_start == bounded_cut_outline_progress - mc.start_outline_progress
        c == mc.cubic
        t == IF outline_progress_size = 0 THEN c.hi
             ELSE c.lo + MulDiv(c.hi - c.lo, progress_from_start, outline_progress_size)
    IN  <<MeasuredCubic([c EXCEPT !.hi = t], mc.start_outline_progress, bounded_cut_outline_progress),
          MeasuredCubic([c EXCEPT !.lo = t], bounded_cut_outline_progress, mc.end_outline_progress)>>

\* The loop of MeasuredPolygon::new from index on
RECURSIVE measured_from(_, _, _, _, _)
measured_from(cubics, outline_progress, index, start_outline_progress, measured_cubics) ==
    IF index = Len(cubics) THEN measured_cubics
    ELSE IF At(outline_progress, index + 1) - At(outline_progress, index) > DISTANCE_EPSILON
         THEN measured_from(cubics, outline_progress, index + 1, At(outline_progress, index + 1),
                  Append(measured_cubics,
                         MeasuredCubic(At(cubics, index), start_outline_progress,
                                       At(outline_progress, index + 1))))
         ELSE measured_from(cubics, outline_progress, index + 1, start_outline_progress,
                            measured_cubics)

\* MeasuredPolygon::new if it left the end of the last measured cubic as it is
measured_polygon_new_as_measured(cubics, outline_progress) ==
    measured_from(cubics, outline_progress, 0, 0, <<>>)

\* MeasuredPolygon::new: the measured cubics, the last one ending at 1.0 (the
\* empty sequence stands for the abort on an empty list)
measured_polygon_new(cubics, outline_progress) ==
    LET measured_cubics == measured_from(cubics, outline_progress, 0, 0, <<>>)
        i == Len(measured_cubics) - 1
    IN  IF Len(measured_cubics) = 0 THEN <<>>
        ELSE [measured_cubics EXCEPT ![i + 1].end_outline_progress = ONE]

\* The search of cut_and_shift for the cubic to cut
RECURSIVE position_of(_, _, _)
position_of(cubics, cutting_point, it) ==
    IF it = Len(cubics) THEN 0
    ELSE IF At(cubics, it).start_outline_progress <= cutting_point
            /\ cutting_point <= At(cubics, it).end_outline_progress
         THEN it
         ELSE position_of(cubics, cutting_point, it + 1)

\* cut_and_shift if the cubics between the two halves were listed from the
\* start of the polygon, not from the cubic after the cut one
cut_and_shift_from_start(cubics, cutting_point) ==
    IF cutting_point < DISTANCE_EPSILON THEN cubics
    ELSE LET n == Len(cubics)
             target_index == position_of(cubics, cutting_point, 0)
             b == cut_at_progress(At(cubics, target_index), cutting_point)
             ret_cubics ==
                 [k \in 1..(n + 1) |->
                     IF k = 1 THEN b[2].cubic
                     ELSE IF k = n + 1 THEN b[1].cubic
                     ELSE At(cubics, (k - 1) % n).cubic]
             ret_outline_progress ==
                 [k \in 1..(n + 2) |->
                     LET index == k - 1 IN
                     IF index = 0 THEN 0
                     ELSE IF index = n + 1 THEN ONE
                     ELSE positive_modulo(
                              At(cubics, (target_index + index - 1) % n).end_outline_progress
                              - cutting_point)]
         IN  measured_polygon_new(ret_cubics, ret_outline_progress)

\* MeasuredPolygon::cut_and_shift, the cubics of the result
cut_and_shift(cubics, cutting_point) ==
    IF cutting_point < DISTANCE_EPSILON THEN cubics
    ELSE LET n == Len(cubics)
             target_index == position_of(cubics, cutting_point, 0)
             b == cut_at_progress(At(cubics, target_index), cutting_point)
             ret_cubics ==
                 [k \in 1..(n + 1) |->
                     IF k = 1 THEN b[2].cubic
                     ELSE IF k = n + 1 THEN b[1].cubic
                     ELSE At(cubics, ((k - 1) + target_index) % n).cubic]
             ret_outline_progress ==
                 [k \in 1..(n + 2) |->
                     LET index == k - 1 IN
                     IF index = 0 THEN 0
                     ELSE IF index = n + 1 THEN ONE
                     ELSE positive_modulo(
                              At(cubics, (target_index + index - 1) % n).end_outline_progress
                              - cutting_point)]
         IN  measured_polygon_new(ret_cubics, ret_outline_progress)

\* cut_and_shift if the progress of a feature was not taken modulo 1
shifted_features_unwrapped(polygon_features, cutting_point) ==
    IF cutting_point < DISTANCE_EPSILON THEN polygon_features
    ELSE [i \in 1..Len(polygon_features) |->
             [progress |-> polygon_features[i].progress - cutting_point,
              feature |-> polygon_features[i].feature]]

\* MeasuredPolygon::cut_and_shift, the features of the result
shifted_features(polygon_features, cutting_point) ==
    IF cutting_point < DISTANCE_EPSILON THEN polygon_features
    ELSE [i \in 1..Len(polygon_features) |->
             [progress |-> positive_modulo(polygon_features[i].progress - cutting_point),
              feature |-> polygon_features[i].feature]]

(***************************************************************************)
(* Polygons without rounding, measured (rounded_polygon.rs,                *)
(* measured_polygon.rs, measurer.rs).  The polygons of the model have      *)
(* their sides parallel to the axes.                                       *)
(***************************************************************************)

\* Point::is_convex if a straight angle counted as convex
is_convex_or_straight(prev, current, next) ==
    LET a == <<current[1] - prev[1], current[2] - prev[2]>>
        b == <<next[1] - current[1], next[2] - current[2]>>
    IN  a[1] * b[2] - a[2] * b[1] >= 0

\* Point::is_convex, on self = prev
is_convex(prev, current, next) ==
    LET a == <<current[1] - prev[1], current[2] - prev[2]>>
        b == <<next[1] - current[1], next[2] - current[2]>>
    IN  a[1] * b[2] - a[2] * b[1] > 0

\* The features RoundedPolygon::from_vertices makes when no corner is
\* rounded: per vertex a corner that is the point itself
\* (RoundedCorner::get_cubics without a radius) and the edge to the next one
unrounded_features(vertices) ==
    LET n == Len(vertices) IN
    [k \in 1..(2 * n) |->
        LET i == (k - 1) \div 2
            curr_vertex == At(vertices, i)
            prev_vertex == At(vertices, (i + n - 1) % n)
            next_vertex == At(vertices, (i + 1) % n)
        IN  IF k % 2 = 1
            THEN corner(<<straight_line(curr_vertex, curr_vertex)>>,
                        is_convex(prev_vertex, curr_vertex, next_vertex))
            ELSE edge(<<straight_line(curr_vertex, next_vertex)>>)]

\* LengthMeasurer::measure_cubic of a straight line parallel to an axis: the
\* three chords add up to the distance of its anchors
measure_cubic(c) == Abs(anchor1(c)[1] - anchor0(c)[1]) + Abs(anchor1(c)[2] - anchor0(c)[2])

\* measure_polygon: the cubics of all features, in order
RECURSIVE polygon_cubics(_)
polygon_cubics(fs) ==
    IF fs = <<>> THEN <<>> ELSE fs[1].cubics \o polygon_cubics(Tail(fs))

\* measure_polygon: feature_to_cubic, the pairs <<feature, index of its
\* central cubic>> of the corners from feature feature_index on, count
\* being the number of cubics before
RECURSIVE feature_to_cubic(_, _, _)
feature_to_cubic(fs, feature_index, count) ==
    IF feature_index = Len(fs) THEN <<>>
    ELSE LET feature == At(fs, feature_index)
             here == IF feature.ty = "Corner" /\ Len(feature.cubics) > 0
                     THEN <<<<feature, count + Len(feature.cubics) \div 2>>>>
                     ELSE <<>>
         IN  here \o feature_to_cubic(fs, feature_index + 1, count + Len(feature.cubics))

\* measure_polygon: measure_results, the sums of the measures
RECURSIVE measure_results(_)
measure_results(cs) ==
    IF cs = <<>> THEN <<0>>
    ELSE LET measure == measure_results(SubSeq(cs, 1, Len(cs) - 1))
         IN  Append(measure, measure[Len(measure)] + measure_cubic(cs[Len(cs)]))

\* measure_polygon: outline_progress, the sums over the total
outline_progress_of(fs) ==
    LET measure == measure_results(polygon_cubics(fs))
        total_measure == measure[Len(measure)]
    IN  [k \in 1..Len(measure) |-> MulDiv(measure[k], ONE, total_measure)]

\* measure_polygon: the features with their progress, the middle of the
\* central cubic
progressable_features(fs) ==
    LET pairs == feature_to_cubic(fs, 0, 0)
        outline_progress == outline_progress_of(fs)
    IN  [k \in 1..Len(pairs) |->
            LET ix == pairs[k][2] IN
            [progress |-> positive_modulo(
                              (At(outline_progress, ix) + At(outline_progress, ix + 1)) \div 2),
             feature |-> pairs[k][1]]]

(***************************************************************************)
(* DoubleMapper::from_features (feature_mapper.rs)                         *)
(***************************************************************************)

\* f32::MAX, the distance of two corners of different convexity
F32_MAX == 2147483647

feature_representative_point(feature) ==
    LET first_ == anchor0(At(feature.cubics, 0))
        last == anchor1(At(feature.cubics, Len(feature.cubics) - 1))
    IN  <<(first_[1] + last[1]) \div 2, (first_[2] + last[2]) \div 2>>

\* feature_dist_squared if it measured corners of different convexity too
feature_dist_squared_of_any(f1, f2) ==
    LET p == feature_representative_point(f1)
        q == feature_representative_point(f2)
    IN  (p[1] - q[1]) * (p[1] - q[1]) + (p[2] - q[2]) * (p[2] - q[2])

feature_dist_squared(f1, f2) ==
    IF f1.ty = "Corner" /\ f2.ty = "Corner" /\ f1.convex # f2.convex
    THEN F32_MAX
    ELSE LET p == feature_representative_point(f1)
             q == feature_representative_point(f2)
         IN  (p[1] - q[1]) * (p[1] - q[1]) + (p[2] - q[2]) * (p[2] - q[2])

\* MappingHelper::default()
NewHelper == [mapping |-> <<>>, used_f1 |-> <<>>, used_f2 |-> <<>>, panicked |-> FALSE]

\* Vec::contains
contains(list, x) == \E k \in 1..Len(list) : list[k] = x

\* MappingHelper::add_mapping if it did not look for crossings
add_mapping_crossing(helper, f1, f2) ==
    LET mapping == helper.mapping
        n == Len(mapping)
        insertion_index == Cardinality({k \in 1..n : mapping[k][1] < f1.progress})
        before == At(mapping, (insertion_index + n - 1) % n)
        after == At(mapping, insertion_index % n)
    IN  IF helper.panicked THEN helper
        ELSE IF contains(helper.used_f1, f1) \/ contains(helper.used_f2, f2) THEN helper
        ELSE IF \E k \in 1..n : mapping[k][1] = f1.progress
             THEN [helper EXCEPT !.panicked = TRUE]
        ELSE IF n >= 1
                /\ \/ progress_distance(f1.progress, before[1]) < DISTANCE_EPSILON
                   \/ progress_distance(f1.progress, after[1]) < DISTANCE_EPSILON
                   \/ progress_distance(f2.progress, before[2]) < DISTANCE_EPSILON
                   \/ progress_distance(f2.progress, after[2]) < DISTANCE_EPSILON
             THEN helper
        ELSE [helper EXCEPT
                 !.mapping = SubSeq(mapping, 1, insertion_index)
                                 \o <<<<f1.progress, f2.progress>>>>
                                 \o SubSeq(mapping, insertion_index + 1, n),
                 !.used_f1 = Append(@, f1),
                 !.used_f2 = Append(@, f2)]

\* MappingHelper::add_mapping; panicked stands for the panic on two features
\* of the same progress
add_mapping(helper, f1, f2) ==
    LET mapping == helper.mapping
        n == Len(mapping)
        insertion_index == Cardinality({k \in 1..n : mapping[k][1] < f1.progress})
        before == At(mapping, (insertion_index + n - 1) % n)
        after == At(mapping, insertion_index % n)
    IN  IF helper.panicked THEN helper
        ELSE IF contains(helper.used_f1, f1) \/ contains(helper.used_f2, f2) THEN helper
        ELSE IF \E k \in 1..n : mapping[k][1] = f1.progress
             THEN [helper EXCEPT !.panicked = TRUE]
        ELSE IF n >= 1
                /\ \/ progress_distance(f1.progress, before[1]) < DISTANCE_EPSILON
                   \/ progress_distance(f1.progress, after[1]) < DISTANCE_EPSILON
                   \/ progress_distance(f2.progress, before[2]) < DISTANCE_EPSILON
                   \/ progress_distance(f2.progress, after[2]) < DISTANCE_EPSILON
                   \/ (n > 1 /\ ~progress_in_range(f2.progress, before[2], after[2]))
             THEN helper
        ELSE [helper EXCEPT
                 !.mapping = SubSeq(mapping, 1, insertion_index)
                                 \o <<<<f1.progress, f2.progress>>>>
                                 \o SubSeq(mapping, insertion_index + 1, n),
                 !.used_f1 = Append(@, f1),
                 !.used_f2 = Append(@, f2)]

\* from_features: the corners of a list
filtered_features(fs) == SelectSeq(fs, LAMBDA f : f.feature.ty = "Corner")

\* from_features: distance_vertex_list before it is sorted
distance_vertex_list(ff1, ff2) ==
    LET n2 == Len(ff2)
        all == [k \in 1..(Len(ff1) * n2) |->
                   LET f1 == ff1[((k - 1) \div n2) + 1]
                       f2 == ff2[((k - 1) % n2) + 1]
                   IN  [distance |-> feature_dist_squared(f1.feature, f2.feature),
                        f1 |-> f1, f2 |-> f2]]
    IN  SelectSeq(all, LAMBDA dv : dv.distance # F32_MAX)

\* sort_by on the distance: a stable sort
RECURSIVE sort_by_distance(_)
sort_by_distance(list) ==
    IF list = <<>> THEN <<>>
    ELSE LET least == CHOOSE k \in 1..Len(list) :
                          /\ \A j \in 1..Len(list) : list[k].distance <= list[j].distance
                          /\ \A j \in 1..(k - 1) : list[j].distance > list[k].distance
         IN  <<list[least]>>
                 \o sort_by_distance(SubSeq(list, 1, least - 1) \o SubSeq(list, least + 1, Len(list)))

\* from_features: the helper after add_mapping on every entry of the list
RECURSIVE add_mappings(_, _)
add_mappings(helper, list) ==
    IF list = <<>> THEN helper
    ELSE add_mappings(add_mapping(helper, list[1].f1, list[1].f2), Tail(list))

\* from_features if a single pair went to DoubleMapper::new by itself
from_features_single(fs1, fs2) ==
    LET list == sort_by_distance(distance_vertex_list(filtered_features(fs1),
                                                      filtered_features(fs2)))
    IN  IF Len(list) = 0 THEN [NewHelper EXCEPT !.mapping = identity_mappings]
        ELSE add_mappings(NewHelper, list)

\* from_features: what DoubleMapper::new is called with, or the panic
from_features(fs1, fs2) ==
    LET list == sort_by_distance(distance_vertex_list(filtered_features(fs1),
                                                      filtered_features(fs2)))
    IN  IF Len(list) = 0 THEN [NewHelper EXCEPT !.mapping = identity_mappings]
        ELSE IF Len(list) = 1
             THEN LET f1 == list[1].f1.progress
                      f2 == list[1].f2.progress
                  IN  [NewHelper EXCEPT
                          !.mapping = <<<<f1, f2>>, <<(f1 + HALF) % ONE, (f2 + HALF) % ONE>>>>]
        ELSE add_mappings(NewHelper, list)

(***************************************************************************)
(* Rounded corners (rounded_polygon.rs).  A length is a number of          *)
(* coordinate units; a component of a unit vector, a cosine, a sine and a  *)
(* smoothing are fixed-point numbers in which VEC_ONE is 1.0.  A ratio of  *)
(* two lengths is kept as the pair <<numerator, denominator>> and is       *)
(* applied by multiplying first and dividing after; quotients of lengths   *)
(* are rounded down.                                                       *)
(***************************************************************************)

\* 1.0 as a component of a unit vector, a cosine, a sine or a smoothing
VEC_ONE == 10 * 1000

\* a / b rounded toward zero, for b > 0
Quot(a, b) == IF a >= 0 THEN a \div b ELSE 0 - ((0 - a) \div b)

\* The largest r in lo..hi with r * r <= n
RECURSIVE sqrt_between(_, _, _)
sqrt_between(n, lo, hi) ==
    IF lo = hi THEN lo
    ELSE LET mid == (lo + hi + 1) \div 2
         IN  IF mid * mid <= n THEN sqrt_between(n, mid, hi) ELSE sqrt_between(n, lo, mid - 1)

\* f32::sqrt of a number that is not negative, rounded down
sqrt(n) == sqrt_between(n, 0, 46340)

\* Vector::length, f32::hypot
hypot(x, y) == sqrt(x * x + y * y)

\* p - q and p + v of points and vectors
minus(p, q) == <<p[1] - q[1], p[2] - q[2]>>

plus(p, v) == <<p[1] + v[1], p[2] + v[2]>>

\* Vector::dot
dot(v, w) == v[1] * w[1] + v[2] * w[2]

\* v / d for a vector of coordinates and its length: a unit vector
unit_vector(v, d) == <<Quot(v[1] * VEC_ONE, d), Quot(v[2] * VEC_ONE, d)>>

\* d * k for a unit vector d and a length k: a vector of coordinates
scaled(d, k) == <<Quot(d[1] * k, VEC_ONE), Quot(d[2] * k, VEC_ONE)>>

\* CornerRounding { radius, smoothing }
CornerRounding(radius, smoothing) == [radius |-> radius, smoothing |-> smoothing]

\* CornerRounding::UNROUNDED
UNROUNDED == CornerRounding(0, 0)

\* RoundedCorner::new(p0, p1, p2, Some(rounding))
rounded_corner_new(p0, p1, p2, vtx_rounding) ==
    LET v01 == minus(p0, p1)
        v21 == minus(p2, p1)
        d01 == hypot(v01[1], v01[2])
        d21 == hypot(v21[1], v21[2])
        sides == d01 > 0 /\ d21 > 0
        d1 == IF sides THEN unit_vector(v01, d01) ELSE <<0, 0>>
        d2 == IF sides THEN unit_vector(v21, d21) ELSE <<0, 0>>
        cos_angle == Quot(dot(d1, d2), VEC_ONE)
        \* 1 - cos^2 is negative when rounding puts the cosine beyond 1: its
        \* root is NaN then, and NaN > 1e-3 is false
        sin_squared == VEC_ONE * VEC_ONE - cos_angle * cos_angle
        sin_angle == IF sin_squared < 0 THEN 0 ELSE sqrt(sin_squared)
        corner_radius == IF sides THEN vtx_rounding.radius ELSE 0
    IN  [p0 |-> p0, p1 |-> p1, p2 |-> p2,
         d1 |-> d1, d2 |-> d2,
         corner_radius |-> corner_radius,
         smoothing |-> IF sides THEN vtx_rounding.smoothing ELSE 0,
         expected_round_cut |->
             IF sides /\ sin_angle > VEC_ONE \div 1000
             THEN (corner_radius * (cos_angle + VEC_ONE)) \div sin_angle
             ELSE 0,
         center |-> <<0, 0>>,
         cubics |-> <<>>]

\* RoundedCorner::expected_cut
expected_cut(rc) == rc.expected_round_cut + (rc.smoothing * rc.expected_round_cut) \div VEC_ONE

\* Point::new(vertices[i * 2], vertices[i * 2 + 1])
vertex(raw, i) == <<At(raw, i * 2), At(raw, i * 2 + 1)>>

\* The first loop of from_vertices if it fell back on no rounding at all
\* where the list has none for a vertex
rounded_corners_unrounded(raw, common, per_vertex) ==
    LET n == Len(raw) \div 2
    IN  [k \in 1..n |->
            LET i == k - 1
                vtx_rounding == IF i < Len(per_vertex) THEN At(per_vertex, i) ELSE UNROUNDED
            IN  rounded_corner_new(vertex(raw, (i + n - 1) % n), vertex(raw, i),
                                   vertex(raw, (i + 1) % n), vtx_rounding)]

\* The first loop of from_vertices: one RoundedCorner for each vertex, with
\* the rounding of its own if the list has one for it, else the common one
rounded_corners_of(raw, common, per_vertex) ==
    LET n == Len(raw) \div 2
    IN  [k \in 1..n |->
            LET i == k - 1
                vtx_rounding == IF i < Len(per_vertex) THEN At(per_vertex, i) ELSE common
            IN  rounded_corner_new(vertex(raw, (i + n - 1) % n), vertex(raw, i),
                                   vertex(raw, (i + 1) % n), vtx_rounding)]

\* x * ratio for a length x and a ratio <<numerator, denominator>>
times(x, ratio) == (x * ratio[1]) \div ratio[2]

\* The closure of cut_adjusts if a side too short for the round cuts still
\* gave the smoothing all it asks for
cut_adjust_smoothing_kept(raw, rcs, ix) ==
    LET n == Len(raw) \div 2
        next == (ix + 1) % n
        expected_round_cut == At(rcs, ix).expected_round_cut + At(rcs, next).expected_round_cut
        expected_cut_ == expected_cut(At(rcs, ix)) + expected_cut(At(rcs, next))
        side_size == hypot(vertex(raw, ix)[1] - vertex(raw, next)[1],
                           vertex(raw, ix)[2] - vertex(raw, next)[2])
    IN  IF expected_round_cut > side_size
        THEN <<<<side_size, expected_round_cut>>, <<1, 1>>>>
        ELSE IF expected_cut_ > side_size
        THEN <<<<1, 1>>, <<side_size - expected_round_cut, expected_cut_ - expected_round_cut>>>>
        ELSE <<<<1, 1>>, <<1, 1>>>>

\* The closure of cut_adjusts: <<round_cut_ratio, cut_ratio>> of the side
\* from vertex ix to the next one
cut_adjust(raw, rcs, ix) ==
    LET n == Len(raw) \div 2
        next == (ix + 1) % n
        expected_round_cut == At(rcs, ix).expected_round_cut + At(rcs, next).expected_round_cut
        expected_cut_ == expected_cut(At(rcs, ix)) + expected_cut(At(rcs, next))
        side_size == hypot(vertex(raw, ix)[1] - vertex(raw, next)[1],
                           vertex(raw, ix)[2] - vertex(raw, next)[2])
    IN  IF expected_round_cut > side_size
        THEN <<<<side_size, expected_round_cut>>, <<0, 1>>>>
        ELSE IF expected_cut_ > side_size
        THEN <<<<1, 1>>, <<side_size - expected_round_cut, expected_cut_ - expected_round_cut>>>>
        ELSE <<<<1, 1>>, <<1, 1>>>>

\* cut_adjusts of from_vertices
cut_adjusts_of(raw, rcs) == [k \in 1..(Len(raw) \div 2) |-> cut_adjust(raw, rcs, k - 1)]

\* allowed_cuts[delta] if every corner were allowed all the cut it asks for
allowed_cut_unadjusted(rcs, adjusts, i, delta) == expected_cut(At(rcs, i))

\* allowed_cuts[delta] of corner i: delta = 0 is the side from the previous
\* corner, delta = 1 the side to the next one
allowed_cut_of(rcs, adjusts, i, delta) ==
    LET n == Len(rcs)
        adjust == At(adjusts, (i + n - 1 + delta) % n)
        rc == At(rcs, i)
    IN  times(rc.expected_round_cut, adjust[1])
        + times(expected_cut(rc) - rc.expected_round_cut, adjust[2])

\* RoundedCorner::calculate_actual_smoothing_value
calculate_actual_smoothing_value(rc, allowed_cut) ==
    IF allowed_cut > expected_cut(rc) THEN rc.smoothing
    ELSE IF allowed_cut > rc.expected_round_cut
    THEN (rc.smoothing * (allowed_cut - rc.expected_round_cut))
             \div (expected_cut(rc) - rc.expected_round_cut)
    ELSE 0

\* Point::rotate90
rotate90(v) == <<0 - v[2], v[1]>>

\* Vector::normalize, Point::get_direction (whose assertion d > 0 the callers
\* of the model test before)
normalize(v) == unit_vector(v, hypot(v[1], v[2]))

\* RoundedCorner::line_intersection, d0 a unit vector and d1 a vector of
\* coordinates: None, or Some(point)
line_intersection(p0, d0, p1, d1) ==
    LET rotated_d1 == rotate90(d1)
        den == dot(d0, rotated_d1)
        num == dot(minus(p1, p0), rotated_d1)
        k == IF (num >= 0) = (den >= 0)
             THEN MulDiv(Abs(num), VEC_ONE, Abs(den))
             ELSE 0 - MulDiv(Abs(num), VEC_ONE, Abs(den))
    IN  IF Abs(den) < VEC_ONE * COORD_EPSILON THEN <<>>
        ELSE IF Abs(den) < Abs(num) \div COORD_ONE THEN <<>>
        ELSE <<plus(p0, scaled(d0, k))>>

\* RoundedCorner::compute_flanking_curve
compute_flanking_curve(actual_round_cut, actual_smoothing_values, corner_, side_start, circle_segment_intersection, other_circle_segment_intersection, circle_center, actual_r) ==
    LET side_direction == normalize(minus(side_start, corner_))
        curve_start ==
            plus(corner_,
                 scaled(side_direction,
                        actual_round_cut
                        + (actual_round_cut * actual_smoothing_values) \div VEC_ONE))
        middle == <<(circle_segment_intersection[1] + other_circle_segment_intersection[1]) \div 2,
                    (circle_segment_intersection[2] + other_circle_segment_intersection[2]) \div 2>>
        to_middle == minus(middle, circle_segment_intersection)
        p == plus(circle_segment_intersection,
                  <<Quot(to_middle[1] * actual_smoothing_values, VEC_ONE),
                    Quot(to_middle[2] * actual_smoothing_values, VEC_ONE)>>)
        curve_end == plus(circle_center, scaled(normalize(minus(p, circle_center)), actual_r))
        circle_tangent == rotate90(minus(curve_end, circle_center))
        hit == line_intersection(side_start, side_direction, curve_end, circle_tangent)
        anchor_end == IF hit = <<>> THEN circle_segment_intersection ELSE hit[1]
        anchor_start == <<Quot(curve_start[1] + 2 * anchor_end[1], 3),
                          Quot(curve_start[2] + 2 * anchor_end[2], 3)>>
    IN  <<curve_start, anchor_start, anchor_end, curve_end>>

\* Cubic::reversed
reversed(c) == <<c[4], c[3], c[2], c[1]>>

\* Cubic::circular_arc if the arc set out from the middle of the chord
circular_arc_from_chord(center_, p0, p1) ==
    straight_line(lerp(p0, p1, HALF), p1)

\* Cubic::circular_arc
circular_arc(center_, p0, p1) ==
    LET p0d == normalize(minus(p0, center_))
        p1d == normalize(minus(p1, center_))
        rotated_p0 == rotate90(p0d)
        rotated_p1 == rotate90(p1d)
        clockwise == dot(rotated_p0, minus(p1, center_)) >= 0
        cosa == Quot(dot(p0d, p1d), VEC_ONE)
        chord == sqrt(2 * (VEC_ONE - cosa) * VEC_ONE)
        sine == IF VEC_ONE * VEC_ONE - cosa * cosa < 0 THEN 0
                ELSE sqrt(VEC_ONE * VEC_ONE - cosa * cosa)
        ratio == ((chord - sine) * VEC_ONE) \div (VEC_ONE - cosa)
        size == Quot(hypot(p0[1] - center_[1], p0[2] - center_[2]) * 4 * ratio, 3 * VEC_ONE)
        k == IF clockwise THEN size ELSE 0 - size
    IN  IF cosa > VEC_ONE - VEC_ONE \div 1000 THEN straight_line(p0, p1)
        ELSE <<p0, plus(p0, scaled(rotated_p0, k)), plus(p1, scaled(rotated_p1, 0 - k)), p1>>

\* RoundedCorner::get_cubics if it gave every corner a single point
get_cubics_point(rc, allowed_cut0, allowed_cut1) ==
    [rc EXCEPT !.center = rc.p1, !.cubics = <<straight_line(rc.p1, rc.p1)>>]

\* RoundedCorner::get_cubics: the corner with its center set, and under
\* "cubics" the list it returns
get_cubics(rc, allowed_cut0, allowed_cut1) ==
    LET allowed_cut == Min(allowed_cut0, allowed_cut1)
        actual_round_cut == Min(allowed_cut, rc.expected_round_cut)
        actual_smoothing0 == calculate_actual_smoothing_value(rc, allowed_cut0)
        actual_smoothing1 == calculate_actual_smoothing_value(rc, allowed_cut1)
        actual_r == (rc.corner_radius * actual_round_cut) \div rc.expected_round_cut
        center_distance == hypot(actual_r, actual_round_cut)
        half_sum == <<Quot(rc.d1[1] + rc.d2[1], 2), Quot(rc.d1[2] + rc.d2[2], 2)>>
        center_ == plus(rc.p1, scaled(normalize(half_sum), center_distance))
        circle_intersection0 == plus(rc.p1, scaled(rc.d1, actual_round_cut))
        circle_intersection2 == plus(rc.p1, scaled(rc.d2, actual_round_cut))
        flanking0 == compute_flanking_curve(actual_round_cut, actual_smoothing0, rc.p1, rc.p0,
                                            circle_intersection0, circle_intersection2,
                                            center_, actual_r)
        flanking2 == reversed(compute_flanking_curve(actual_round_cut, actual_smoothing1, rc.p1,
                                                     rc.p2, circle_intersection2,
                                                     circle_intersection0, center_, actual_r))
        flanking1 == circular_arc(center_, anchor1(flanking0), anchor0(flanking2))
    IN  IF \/ rc.expected_round_cut < COORD_EPSILON
           \/ allowed_cut < COORD_EPSILON
           \/ rc.corner_radius < COORD_EPSILON
        THEN [rc EXCEPT !.center = rc.p1, !.cubics = <<straight_line(rc.p1, rc.p1)>>]
        ELSE [rc EXCEPT !.center = center_, !.cubics = <<flanking0, flanking1, flanking2>>]

\* allowed_cuts of every corner
allowed_cuts_of(rcs, adjusts) ==
    [k \in 1..Len(rcs) |->
        <<allowed_cut_of(rcs, adjusts, k - 1, 0), allowed_cut_of(rcs, adjusts, k - 1, 1)>>]

\* The second loop of from_vertices: get_cubics on every rounded corner
corners_of(rcs, cuts) ==
    [k \in 1..Len(rcs) |-> get_cubics(rcs[k], cuts[k][1], cuts[k][2])]

\* The third loop of from_vertices if it left out the edges of no length
temp_features_without_points(raw, corner_list) ==
    LET n == Len(raw) \div 2
        all == [k \in 1..(2 * n) |->
                   LET i == (k - 1) \div 2
                       follows == At(corner_list, (i + 1) % n)
                       mine == At(corner_list, i)
                   IN  IF k % 2 = 1
                       THEN corner(mine, is_convex(vertex(raw, (i + n - 1) % n), vertex(raw, i),
                                                   vertex(raw, (i + 1) % n)))
                       ELSE edge(<<straight_line(anchor1(mine[Len(mine)]), anchor0(follows[1]))>>)]
    IN  SelectSeq(all, LAMBDA f : f.ty = "Corner" \/ ~zero_length(f.cubics[1]))

\* The third loop of from_vertices: for every vertex its corner, convex or
\* not, and the edge from the last anchor of the corner to the first anchor
\* of the next corner
temp_features_of(raw, corner_list) ==
    LET n == Len(raw) \div 2
    IN  [k \in 1..(2 * n) |->
            LET i == (k - 1) \div 2
                follows == At(corner_list, (i + 1) % n)
                mine == At(corner_list, i)
            IN  IF k % 2 = 1
                THEN corner(mine, is_convex(vertex(raw, (i + n - 1) % n), vertex(raw, i),
                                            vertex(raw, (i + 1) % n)))
                ELSE edge(<<straight_line(anchor1(mine[Len(mine)]), anchor0(follows[1]))>>)]

\* The sum of the coordinates k of the vertices from index on
RECURSIVE cumulative(_, _, _)
cumulative(raw, index, k) ==
    IF index >= Len(raw) THEN 0 ELSE At(raw, index + k) + cumulative(raw, index + 2, k)

\* center_from_vertices
center_from_vertices(raw) ==
    <<Quot(cumulative(raw, 0, 0), Len(raw) \div 2), Quot(cumulative(raw, 0, 1), Len(raw) \div 2)>>

(***************************************************************************)
(* The star builder (polygon_builder.rs).  Angles are whole degrees; the   *)
(* stars of the model have their vertices at multiples of 30 and of 45     *)
(* degrees, whose cosines are roots.                                       *)
(***************************************************************************)

\* f32::cos of an angle between 0 and 90 degrees, in units of 1 / VEC_ONE
cos_quadrant(degrees) ==
    CASE degrees = 0 -> VEC_ONE
      [] degrees = 30 -> sqrt(3 * VEC_ONE * VEC_ONE) \div 2
      [] degrees = 45 -> sqrt((VEC_ONE * VEC_ONE) \div 2)
      [] degrees = 60 -> VEC_ONE \div 2
      [] degrees = 90 -> 0

\* f32::cos and f32::sin
cos(degrees) ==
    LET d == degrees % 360
    IN  IF d <= 90 THEN cos_quadrant(d)
        ELSE IF d <= 180 THEN 0 - cos_quadrant(180 - d)
        ELSE IF d <= 270 THEN 0 - cos_quadrant(d - 180)
        ELSE cos_quadrant(360 - d)

sin(degrees) == cos(degrees + 270)

\* util::radial_to_cartesian
radial_to_cartesian(radius, angle) ==
    <<Quot(cos(angle) * radius, VEC_ONE), Quot(sin(angle) * radius, VEC_ONE)>>

\* star_vertices_from_num_verts, as the array of coordinates from_vertices
\* takes: vertex i at the angle PI / num_vertices_per_radius * i, on the
\* radius when i is even and on the inner radius when it is odd
star_vertices_from_num_verts(num_vertices_per_radius, radius, inner_radius, center_) ==
    [k \in 1..(4 * num_vertices_per_radius) |->
        LET i == (k - 1) \div 2
            v == plus(center_, radial_to_cartesian(IF i % 2 = 0 THEN radius ELSE inner_radius,
                                                   (180 * i) \div num_vertices_per_radius))
        IN  IF k % 2 = 1 THEN v[1] ELSE v[2]]

(***************************************************************************)
(* path_from_cubics (path.rs).  The PathBuilder is the list of the calls   *)
(* it has received.                                                        *)
(***************************************************************************)

\* The calls of the PathBuilder trait
rewind == [op |-> "rewind", points |-> <<>>]

move_to(point) == [op |-> "move_to", points |-> <<point>>]

line_to(point) == [op |-> "line_to", points |-> <<point>>]

cubic_to(ctrl1, ctrl2, to) == [op |-> "cubic_to", points |-> <<ctrl1, ctrl2, to>>]

close == [op |-> "close", points |-> <<>>]

\* transformed(Matrix3::identity())
transformed_identity == [op |-> "transformed", points |-> <<>>]

\* transformed(Matrix3::rotation(..)): the rotation is kept as the vector
\* from the pivot to the first anchor, whose angle it takes off, and the
\* start angle it adds
transformed_rotation(from_pivot, angle) ==
    [op |-> "transformed", points |-> <<from_pivot, <<angle, 0>>>>]

\* The body of the first loop of path_from_cubics: what the path receives
\* for the cubic it
first_loop_calls(it, is_first) ==
    IF is_first
    THEN <<move_to(anchor0(it)), cubic_to(control0(it), control1(it), anchor1(it))>>
    ELSE <<cubic_to(control0(it), control1(it), anchor1(it))>>

\* The body of the second loop if it moved to the first anchor
repeat_loop_calls_moving(it, is_first_in_repeat) ==
    IF is_first_in_repeat
    THEN <<move_to(anchor0(it)), cubic_to(control0(it), control1(it), anchor1(it))>>
    ELSE <<cubic_to(control0(it), control1(it), anchor1(it))>>

\* The body of the second loop of path_from_cubics
repeat_loop_calls(it, is_first_in_repeat) ==
    IF is_first_in_repeat
    THEN <<line_to(anchor0(it)), cubic_to(control0(it), control1(it), anchor1(it))>>
    ELSE <<cubic_to(control0(it), control1(it), anchor1(it))>>

(***************************************************************************)
(* The DoubleMapper machine: a caller collects mappings, constructs the    *)
(* mapper (DoubleMapper::new or DoubleMapper::identity) and then calls map *)
(* and map_back on it, on a sample or on the result of the call before.    *)
(***************************************************************************)
VARIABLES mappings, dm, dmState, first, second

mapperVars == <<mappings, dm, dmState, first, second>>

\* The state of Morph::match_morph: the two outlines measured, the cut point,
\* the locals of the sweep and the program counter
VARIABLES start, end, outline1, outline2, bs1, bs2, bs2_features, polygon2_cut_point, i1, i2, b1, b2, t1, t2, ret, pc

morphVars == <<start, end, outline1, outline2, bs1, bs2, bs2_features, polygon2_cut_point, i1, i2, b1, b2, t1, t2, ret, pc>>

\* The state of Morph::as_cubics: the matched pairs of the Morph, the argument,
\* the locals of the loop and the position
VARIABLES match, progress, as_cubics, as_first_cubic, as_last_cubic, as_i, as_pc

asCubicsVars == <<match, progress, as_cubics, as_first_cubic, as_last_cubic, as_i, as_pc>>

\* The state of RoundedPolygon::new: the arguments, the locals of the two
\* loops, the flattened list and the position
VARIABLES features, center, cubics, first_cubic, last_cubic, first_feature_split_start,
          first_feature_split_end, rp_i, rp_j, rp_pc

polygonVars == <<features, center, cubics, first_cubic, last_cubic, first_feature_split_start,
                 first_feature_split_end, rp_i, rp_j, rp_pc>>

\* The state of RoundedPolygon::from_vertices: the arguments, the locals of
\* its loops and the position
VARIABLES vertices, rounding, per_vertex_rounding, center_arg, rounded_corners, cut_adjusts,
          allowed_cuts, corners, fv_pc

verticesVars == <<vertices, rounding, per_vertex_rounding, center_arg, rounded_corners,
                  cut_adjusts, allowed_cuts, corners, fv_pc>>

\* The state of DoubleMapper::from_features: the arguments, the helper and
\* the position
VARIABLES features1, features2, mapping_helper, fm_pc

featureMapperVars == <<features1, features2, mapping_helper, fm_pc>>

\* The state of path_from_cubics: the path, the arguments, the locals and
\* the position
VARIABLES path, start_angle, repeat_path, close_path, path_cubics, rotation_pivot, path_first,
          path_first_cubic, first_in_repeat, path_i, path_pc

pathVars == <<path, start_angle, repeat_path, close_path, path_cubics, rotation_pivot, path_first,
              path_first_cubic, first_in_repeat, path_i, path_pc>>

vars == <<mapperVars, morphVars, asCubicsVars, polygonVars, verticesVars, featureMapperVars,
          pathVars>>

\* What the operations of a DoubleMapper leave alone
notMapperVars == <<morphVars, asCubicsVars, polygonVars, verticesVars, featureMapperVars, pathVars>>

\* What match_morph leaves alone, the mapper apart
notMorphVars == <<asCubicsVars, polygonVars, verticesVars, featureMapperVars, pathVars>>

\* What as_cubics leaves alone
notAsCubicsVars == <<mapperVars, morphVars, polygonVars, verticesVars, featureMapperVars, pathVars>>

\* What RoundedPolygon::new leaves alone
notPolygonVars == <<mapperVars, morphVars, asCubicsVars, verticesVars, featureMapperVars, pathVars>>

\* What from_vertices leaves alone until it calls RoundedPolygon::new
notVerticesVars == <<mapperVars, morphVars, asCubicsVars, polygonVars, featureMapperVars, pathVars>>

\* What from_features leaves alone, the mapper apart
notFeatureMapperVars == <<morphVars, asCubicsVars, polygonVars, verticesVars, pathVars>>

\* What path_from_cubics leaves alone
notPathVars == <<mapperVars, morphVars, asCubicsVars, polygonVars, verticesVars,
                 featureMapperVars>>

\* Most pairs a caller hands to DoubleMapper::new
MaxPairs == 3

\* The progress values a mapping is made of: 0, DISTANCE_EPSILON exactly, a
\* value that makes a segment narrower than 0.001, 0.5, and 1.0 (out of range)
MappingValues == {0, DISTANCE_EPSILON, 5 * DISTANCE_EPSILON, HALF, ONE}

\* The arguments of map and map_back
Samples == {0, DISTANCE_EPSILON \div 10, 4 * DISTANCE_EPSILON, HALF \div 2, HALF,
            HALF + HALF \div 2, ONE - DISTANCE_EPSILON \div 10, ONE}

\* Values no progress can have: one below 0.0 and one above 1.0
StrayValues == {0 - DISTANCE_EPSILON, ONE + DISTANCE_EPSILON}

\* Arguments outside of 0.0..=1.0, near the ends and far from them
OutOfRange == {0 - ONE, 0 - 1, ONE + 1, 2 * ONE}

NoMapper == [source_values |-> <<>>, target_values |-> <<>>]

NoCall == [op |-> "none", arg |-> 0, res |-> 0]

MapperIdle ==
    /\ mappings = <<>>
    /\ dm = NoMapper
    /\ dmState = "input"
    /\ first = NoCall
    /\ second = NoCall

\* The caller adds one (source, target) pair to the list it will construct from
AddMapping(s, t) ==
    /\ dmState = "input"
    /\ pc = "idle"
    /\ Len(mappings) < MaxPairs
    /\ mappings' = Append(mappings, <<s, t>>)
    /\ UNCHANGED <<dm, dmState, first, second, notMapperVars>>

\* DoubleMapper::new(mappings): unzip, validate both arrays, build
New(m) ==
    /\ dmState = "input"
    /\ pc = "idle"
    /\ IF new_outcome(m) = "ok"
       THEN /\ dm' = [source_values |-> source_of(m), target_values |-> target_of(m)]
            /\ dmState' = "built"
       ELSE /\ dm' = NoMapper
            /\ dmState' = "aborted"
    /\ mappings' = m
    /\ UNCHANGED <<first, second, notMapperVars>>

\* DoubleMapper::new on the list collected so far
Construct == New(mappings)

\* DoubleMapper::identity()
Identity ==
    /\ mappings = <<>>
    /\ New(identity_mappings)

\* One call of map or map_back; a failed assertion inside it aborts the program
Call(op, x) ==
    LET r == IF op = "map" THEN map(dm, x) ELSE map_back(dm, x)
        c == [op |-> op, arg |-> x, res |-> r.value]
    IN  /\ dmState = "built"
        /\ second = NoCall
        /\ dmState' = IF r.ok THEN dmState ELSE "call_aborted"
        /\ IF first = NoCall
           THEN first' = c /\ second' = second
           ELSE first' = first /\ second' = c
        /\ UNCHANGED <<mappings, dm, notMapperVars>>

\* map(x) for a sample x
Map(x) == Call("map", x)

\* map_back(x) for a sample x
MapBack(x) == Call("map_back", x)

\* map applied to the result of the call before
MapOfResult == first # NoCall /\ Call("map", first.res)

\* map_back applied to the result of the call before
MapBackOfResult == first # NoCall /\ Call("map_back", first.res)

MorphIdle ==
    /\ start = <<>>
    /\ end = <<>>
    /\ outline1 = <<>>
    /\ outline2 = <<>>
    /\ bs1 = <<>>
    /\ bs2 = <<>>
    /\ bs2_features = <<>>
    /\ polygon2_cut_point = 0
    /\ i1 = 0
    /\ i2 = 0
    /\ b1 = <<>>
    /\ b2 = <<>>
    /\ t1 = <<>>
    /\ t2 = <<>>
    /\ ret = <<>>
    /\ pc = "idle"


(***************************************************************************)
(* Morph::match_morph (morph.rs).  The mapper is one that construction     *)
(* returned; the two polygons are given by their outline progress, the     *)
(* argument of MeasuredPolygon::new.  An Option is a sequence of at most   *)
(* one element.                                                            *)
(***************************************************************************)

None == <<>>

Some(x) == <<x>>

\* slice.get(i).copied()
\* slice.get(i) if it went around the slice
GetAround(slice, i) == IF slice = <<>> THEN None ELSE Some(At(slice, i % Len(slice)))

Get(slice, i) == IF i < Len(slice) THEN Some(At(slice, i)) ELSE None

\* The values a mapping of the morph is made of: every segment is at least
\* 0.002 wide
MorphMappingValues == {0, HALF, ONE - 2 * SEGMENT_MIN}

\* Where the cubics of an outline may end, between 0 and 1
OutlineBreaks == {HALF \div 2, HALF, ONE - 2 * DISTANCE_EPSILON}

\* The increasing sequence of the members of a finite set of numbers
RECURSIVE Sorted(_)
Sorted(S) ==
    IF S = {} THEN <<>>
    ELSE LET m == CHOOSE x \in S : \A y \in S : x <= y
         IN  <<m>> \o Sorted(S \ {m})

\* The outline progress arrays: 0, some breaks in increasing order, 1
Outlines == {<<0>> \o Sorted(S) \o <<ONE>> : S \in SUBSET OutlineBreaks}

\* The cubics of an outline, whole and in order
CubicsOf(outline) == [k \in 1..(Len(outline) - 1) |-> WholeCubic(k - 1)]

\* The features measure_polygon gives with an outline whose cubics are, in
\* turn, a corner and an edge: each corner at the middle of its cubic
CornersOf(outline) ==
    [k \in 1..(Len(outline) \div 2) |->
        LET ix == 2 * (k - 1) IN
        [progress |-> positive_modulo((At(outline, ix) + At(outline, ix + 1)) \div 2),
         feature |-> corner(<<WholeCubic(ix)>>, k % 2 = 1)]]

\* match_morph up to the measuring of both polygons.  from_features returns
\* mappers of two or more pairs only.  MeasuredPolygon::new aborts when no
\* cubic is wider than DISTANCE_EPSILON.
Measure(o1, o2) ==
    /\ pc = "idle"
    /\ dmState = "built"
    /\ first = NoCall
    /\ Len(dm.source_values) >= 2
    /\ outline1' = o1
    /\ outline2' = o2
    /\ bs1' = measured_polygon_new(CubicsOf(o1), o1)
    /\ bs2' = measured_polygon_new(CubicsOf(o2), o2)
    /\ bs2_features' = CornersOf(o2)
    /\ pc' = IF bs1' = <<>> \/ bs2' = <<>> THEN "abort_empty" ELSE "measured"
    /\ UNCHANGED <<start, end, polygon2_cut_point, i1, i2, b1, b2, t1, t2, ret, mapperVars,
                   notMorphVars>>

\* polygon2_cut_point = double_mapper.map(0.0), the end polygon cut and
\* shifted, and the first cubic of each side taken
CutAndShift ==
    LET cut == map(dm, 0) IN
    /\ pc = "measured"
    /\ IF ~cut.ok \/ ~(0 <= cut.value /\ cut.value <= ONE)
       THEN /\ pc' = "abort_range"
            /\ UNCHANGED <<bs2, bs2_features, polygon2_cut_point, i1, i2, b1, b2>>
       ELSE /\ polygon2_cut_point' = cut.value
            /\ bs2' = cut_and_shift(bs2, cut.value)
            /\ bs2_features' = shifted_features(bs2_features, cut.value)
            /\ b1' = Get(bs1, 0)
            /\ i1' = 1
            /\ b2' = Get(bs2', 0)
            /\ i2' = 1
            /\ pc' = IF bs2' = <<>> THEN "abort_empty" ELSE "test"
    /\ UNCHANGED <<start, end, outline1, outline2, bs1, t1, t2, ret, mapperVars, notMorphVars>>

\* The cutting points a caller of cut_and_shift passes
CuttingPoints ==
    {0, DISTANCE_EPSILON \div 2, DISTANCE_EPSILON, HALF \div 2, HALF \div 2 + DISTANCE_EPSILON \div 2,
     HALF - DISTANCE_EPSILON \div 2, HALF, HALF + HALF \div 2, ONE - DISTANCE_EPSILON, ONE}
        \cup OutOfRange

\* The outline progress arrays measure_polygon hands to MeasuredPolygon::new:
\* those above, and arrays with cubics of no length and with cubics not
\* longer than DISTANCE_EPSILON at the start, in the middle and at the end
MeasuredOutlines ==
    Outlines \cup
    { <<0, 0, HALF \div 2, HALF \div 2, HALF, HALF + DISTANCE_EPSILON \div 2, ONE, ONE>>,
      <<0, DISTANCE_EPSILON, HALF, ONE - DISTANCE_EPSILON \div 2, ONE>>,
      <<0, HALF \div 2, HALF, HALF + HALF \div 2, ONE>> }

\* MeasuredPolygon::new for one polygon, given by its outline progress
MeasuredPolygonNew(o) ==
    /\ pc = "idle"
    /\ dmState = "input"
    /\ mappings = <<>>
    /\ outline2' = o
    /\ bs2' = measured_polygon_new(CubicsOf(o), o)
    /\ bs2_features' = CornersOf(o)
    /\ pc' = IF bs2' = <<>> THEN "abort_empty" ELSE "measured"
    /\ UNCHANGED <<start, end, outline1, bs1, polygon2_cut_point, i1, i2, b1, b2, t1, t2, ret,
                   mapperVars, notMorphVars>>

\* cut_and_shift(cutting_point) called on that polygon: the assertion on the
\* cutting point, then the cut
CutAndShiftCall(cutting_point) ==
    /\ pc = "measured"
    /\ dmState = "input"
    /\ polygon2_cut_point' = cutting_point
    /\ IF ~(0 <= cutting_point /\ cutting_point <= ONE)
       THEN /\ pc' = "abort_range"
            /\ UNCHANGED <<bs2, bs2_features>>
       ELSE /\ bs2' = cut_and_shift(bs2, cutting_point)
            /\ bs2_features' = shifted_features(bs2_features, cutting_point)
            /\ pc' = IF bs2' = <<>> THEN "abort_empty" ELSE "shifted"
    /\ UNCHANGED <<start, end, outline1, outline2, bs1, i1, i2, b1, b2, t1, t2, ret,
                   mapperVars, notMorphVars>>

\* The loop condition: while let (Some(bb1), Some(bb2)) = (b1.take(), b2.take()).
\* take() leaves None behind in b1 and in b2, whether the pattern matches or not.
LoopTest ==
    /\ pc = "test"
    /\ t1' = b1
    /\ t2' = b2
    /\ b1' = None
    /\ b2' = None
    /\ pc' = IF b1 # None /\ b2 # None THEN "body" ELSE "exit"
    /\ UNCHANGED <<start, end, outline1, outline2, bs1, bs2, bs2_features, polygon2_cut_point, i1, i2, ret, mapperVars, notMorphVars>>

\* The body of the loop: one pair is pushed
SweepStep ==
    LET bb1 == t1[1]
        bb2 == t2[1]
        b1a == IF i1 = Len(bs1) THEN ONE ELSE bb1.end_outline_progress
        back == IF i2 = Len(bs2) THEN Value(ONE)
                ELSE map_back(dm, bb2.end_outline_progress + polygon2_cut_point)
        b2a == IF i2 = Len(bs2) THEN ONE ELSE positive_modulo(back.value)
        minb == Min(b1a, b2a)
        cut1 == b1a > minb + ANGLE_EPSILON
        cut2 == b2a > minb + ANGLE_EPSILON
        forth == IF cut2 THEN map(dm, minb) ELSE Value(0)
        halves1 == cut_at_progress(bb1, minb)
        halves2 == cut_at_progress(bb2, positive_modulo(forth.value - polygon2_cut_point))
        seg1 == IF cut1 THEN halves1[1] ELSE bb1
        seg2 == IF cut2 THEN halves2[1] ELSE bb2
    IN  /\ pc = "body"
        /\ IF ~back.ok \/ ~forth.ok
           THEN /\ pc' = "abort_range"
                /\ UNCHANGED <<i1, i2, b1, b2, ret>>
           ELSE /\ b1' = IF cut1 THEN Some(halves1[2]) ELSE Get(bs1, i1)
                /\ i1' = IF cut1 THEN i1 ELSE i1 + 1
                /\ b2' = IF cut2 THEN Some(halves2[2]) ELSE Get(bs2, i2)
                /\ i2' = IF cut2 THEN i2 ELSE i2 + 1
                /\ ret' = Append(ret, <<seg1.cubic, seg2.cubic>>)
                /\ pc' = "test"
        /\ UNCHANGED <<start, end, outline1, outline2, bs1, bs2, bs2_features, polygon2_cut_point, t1, t2, mapperVars, notMorphVars>>

\* After the loop: assert!(b1.is_none() && b2.is_none()), then ret is returned
Finish ==
    /\ pc = "exit"
    /\ pc' = IF b1 = None /\ b2 = None THEN "done" ELSE "unmatched"
    /\ UNCHANGED <<start, end, outline1, outline2, bs1, bs2, bs2_features, polygon2_cut_point, i1, i2, b1, b2, t1, t2, ret,
                   mapperVars, notMorphVars>>


\* The sides of the rectangles
Sides == {10, 20, 9990, 10000}

\* The vertices of the polygons that are morphed: rectangles, and a polygon
\* with a concave corner
Polygons ==
    {<<<<0, 0>>, <<w, 0>>, <<w, h>>, <<0, h>>>> : w \in Sides, h \in Sides}
        \cup {<<<<0, 0>>, <<20, 0>>, <<20, 10>>, <<10, 10>>, <<10, 20>>, <<0, 20>>>>}

\* Morph::new(start, end) on two polygons without rounding, up to the mapper
\* of match_morph: both are measured and DoubleMapper::from_features is called
MorphNew(p1, p2) ==
    LET fs1 == unrounded_features(p1)
        fs2 == unrounded_features(p2)
        o1 == outline_progress_of(fs1)
        o2 == outline_progress_of(fs2)
        helper == from_features(progressable_features(fs1), progressable_features(fs2))
        built == ~helper.panicked /\ new_outcome(helper.mapping) = "ok"
    IN  /\ pc = "idle"
        /\ dmState = "input"
        /\ mappings = <<>>
        /\ start' = fs1
        /\ end' = fs2
        /\ outline1' = o1
        /\ outline2' = o2
        /\ bs1' = measured_polygon_new(CubicsOf(o1), o1)
        /\ bs2' = measured_polygon_new(CubicsOf(o2), o2)
        /\ bs2_features' = progressable_features(fs2)
        /\ mappings' = helper.mapping
        /\ dm' = IF built THEN [source_values |-> source_of(helper.mapping),
                                target_values |-> target_of(helper.mapping)]
                 ELSE NoMapper
        /\ dmState' = IF built THEN "built" ELSE "aborted"
        /\ pc' = IF bs1' = <<>> \/ bs2' = <<>> THEN "abort_empty"
                 ELSE IF built THEN "measured"
                 ELSE "abort_mapper"
        /\ UNCHANGED <<first, second, polygon2_cut_point, i1, i2, b1, b2, t1, t2, ret,
                       notMorphVars>>

(***************************************************************************)
(* Morph::as_cubics (morph.rs), on a Morph whose matched pairs hold cubics *)
(* with coordinates                                                        *)
(***************************************************************************)

\* The most pairs a Morph of the model holds
MaxMatch == 3

\* The cubics of the start polygon the pairs are made of
StartCubics ==
    { <<<<0, 0>>, <<10, 0>>, <<20, 0>>, <<30, 0>>>>,
      <<<<30, 0>>, <<30, 10>>, <<30, 20>>, <<30, 30>>>> }

\* The cubics of the end polygon the pairs are made of
EndCubics ==
    { <<<<2, 4>>, <<14, 0>>, <<26, 0>>, <<40, 2>>>>,
      <<<<30, 31>>, <<21, 40>>, <<10, 40>>, <<1, 1>>>> }

\* The arguments of as_cubics
Progresses == {0, HALF \div 2, HALF, ONE}

AsCubicsIdle ==
    /\ match = <<>>
    /\ progress = 0
    /\ as_cubics = <<>>
    /\ as_first_cubic = None
    /\ as_last_cubic = None
    /\ as_i = 0
    /\ as_pc = "input"

\* One more matched pair in the Morph
AddPair(c1, c2) ==
    /\ as_pc = "input"
    /\ Len(match) < MaxMatch
    /\ match' = Append(match, <<c1, c2>>)
    /\ UNCHANGED <<progress, as_cubics, as_first_cubic, as_last_cubic, as_i, as_pc, notAsCubicsVars>>

\* as_cubics(t) up to its loop
AsCubics(t) ==
    /\ as_pc = "input"
    /\ progress' = t
    /\ as_cubics' = <<>>
    /\ as_first_cubic' = None
    /\ as_last_cubic' = None
    /\ as_i' = 0
    /\ as_pc' = "loop"
    /\ UNCHANGED <<match, notAsCubicsVars>>

\* One iteration of the loop of as_cubics
AsCubicsStep ==
    LET cubic == [it \in 1..4 |-> lerp(At(match, as_i)[1][it], At(match, as_i)[2][it], progress)]
    IN  /\ as_pc = "loop"
        /\ as_i < Len(match)
        /\ as_first_cubic' = IF as_first_cubic = None THEN Some(cubic) ELSE as_first_cubic
        /\ as_cubics' = IF as_last_cubic # None THEN Append(as_cubics, as_last_cubic[1])
                        ELSE as_cubics
        /\ as_last_cubic' = Some(cubic)
        /\ as_i' = as_i + 1
        /\ UNCHANGED <<match, progress, as_pc, notAsCubicsVars>>

\* After the loop: the last cubic is pushed, ending on the first one's anchor0
AsCubicsReturn ==
    /\ as_pc = "loop"
    /\ as_i = Len(match)
    /\ as_cubics' = IF as_last_cubic # None /\ as_first_cubic # None
                    THEN Append(as_cubics, stitching_cubic(as_last_cubic[1], as_first_cubic[1]))
                    ELSE as_cubics
    /\ as_pc' = "returned"
    /\ UNCHANGED <<match, progress, as_first_cubic, as_last_cubic, as_i, notAsCubicsVars>>

(***************************************************************************)
(* RoundedPolygon::new (rounded_polygon.rs)                                *)
(***************************************************************************)

\* The most features a polygon of the model is made of
MaxFeatures == 3

\* The features the polygons are made of: a corner that is a point, an
\* edge, a rounded corner of three cubics, an edge shorter than
\* DISTANCE_EPSILON that ends off its start, and two more edges, one back
\* to the point and one back to the start of the rounded corner
FeatureChoices ==
    { corner(<<straight_line(<<0, 0>>, <<0, 0>>)>>, TRUE),
      edge(<<straight_line(<<0, 0>>, <<300, 0>>)>>),
      corner(<<straight_line(<<300, 0>>, <<400, 0>>),
               <<<<400, 0>>, <<460, 0>>, <<500, 40>>, <<500, 100>>>>,
               straight_line(<<500, 100>>, <<500, 200>>)>>, TRUE),
      edge(<<straight_line(<<500, 200>>, <<505, 204>>)>>),
      edge(<<straight_line(<<505, 204>>, <<0, 0>>)>>),
      edge(<<straight_line(<<505, 204>>, <<300, 0>>)>>) }

\* The centers given to RoundedPolygon::new
Centers == {<<250, 100>>}

PolygonIdle ==
    /\ features = <<>>
    /\ center = <<0, 0>>
    /\ cubics = <<>>
    /\ first_cubic = None
    /\ last_cubic = None
    /\ first_feature_split_start = None
    /\ first_feature_split_end = None
    /\ rp_i = 0
    /\ rp_j = 0
    /\ rp_pc = "input"

\* One more feature in the list the polygon is made from
AddFeature(f) ==
    /\ rp_pc = "input"
    /\ Len(features) < MaxFeatures
    /\ features' = Append(features, f)
    /\ UNCHANGED <<center, cubics, first_cubic, last_cubic, first_feature_split_start,
                   first_feature_split_end, rp_i, rp_j, rp_pc, notPolygonVars>>

\* RoundedPolygon::new(features, c) up to its loop: the center cubic of a
\* first feature of three cubics is split
PolygonNew(c) ==
    LET three == Len(features) # 0 /\ Len(At(features, 0).cubics) = 3
        halves == split_half(At(At(features, 0).cubics, 1))
    IN  /\ rp_pc = "input"
        /\ center' = c
        /\ cubics' = <<>>
        /\ first_cubic' = None
        /\ last_cubic' = None
        /\ first_feature_split_start' =
               IF three THEN Some(<<At(At(features, 0).cubics, 0), halves[1]>>) ELSE None
        /\ first_feature_split_end' =
               IF three THEN Some(<<halves[2], At(At(features, 0).cubics, 2)>>) ELSE None
        /\ rp_i' = 0
        /\ rp_j' = 0
        /\ rp_pc' = "loop"
        /\ UNCHANGED <<features, notPolygonVars>>

\* The loop is left at i = features.len() when there is no split first feature
Break == rp_i = Len(features) /\ first_feature_split_start = None

\* feature_cubics of the iteration i of the outer loop
feature_cubics_at(i) ==
    IF i = 0 /\ first_feature_split_end # None THEN first_feature_split_end[1]
    ELSE IF i = Len(features) THEN first_feature_split_start[1]
    ELSE At(features, i).cubics

\* The inner loop if a cubic without length was skipped and nothing else
FlattenCubicSkipping ==
    LET cubic == At(feature_cubics_at(rp_i), rp_j)
    IN  /\ rp_pc = "loop"
        /\ rp_i <= Len(features)
        /\ ~Break
        /\ rp_j < Len(feature_cubics_at(rp_i))
        /\ IF ~zero_length(cubic)
           THEN /\ cubics' = IF last_cubic # None THEN Append(cubics, last_cubic[1]) ELSE cubics
                /\ last_cubic' = Some(cubic)
                /\ first_cubic' = IF first_cubic = None THEN Some(cubic) ELSE first_cubic
           ELSE UNCHANGED <<cubics, first_cubic, last_cubic>>
        /\ rp_j' = rp_j + 1
        /\ UNCHANGED <<features, center, first_feature_split_start, first_feature_split_end,
                       rp_i, rp_pc, notPolygonVars>>

\* One iteration of the inner loop: a cubic with length replaces last_cubic,
\* which is pushed; a cubic without moves the end of last_cubic
FlattenCubic ==
    LET cubic == At(feature_cubics_at(rp_i), rp_j)
    IN  /\ rp_pc = "loop"
        /\ rp_i <= Len(features)
        /\ ~Break
        /\ rp_j < Len(feature_cubics_at(rp_i))
        /\ IF ~zero_length(cubic)
           THEN /\ cubics' = IF last_cubic # None THEN Append(cubics, last_cubic[1]) ELSE cubics
                /\ last_cubic' = Some(cubic)
                /\ first_cubic' = IF first_cubic = None THEN Some(cubic) ELSE first_cubic
           ELSE /\ last_cubic' = IF last_cubic # None
                                 THEN Some([last_cubic[1] EXCEPT ![4] = anchor1(cubic)])
                                 ELSE last_cubic
                /\ UNCHANGED <<cubics, first_cubic>>
        /\ rp_j' = rp_j + 1
        /\ UNCHANGED <<features, center, first_feature_split_start, first_feature_split_end,
                       rp_i, rp_pc, notPolygonVars>>

\* The inner loop is over: the next iteration of the outer loop
NextFeature ==
    /\ rp_pc = "loop"
    /\ rp_i <= Len(features)
    /\ ~Break
    /\ rp_j = Len(feature_cubics_at(rp_i))
    /\ rp_i' = rp_i + 1
    /\ rp_j' = 0
    /\ UNCHANGED <<features, center, cubics, first_cubic, last_cubic, first_feature_split_start,
                   first_feature_split_end, rp_pc, notPolygonVars>>

\* After the loop: the cubic that closes the outline is pushed, or the
\* center four times for a polygon without a cubic of any length
PolygonReturn ==
    /\ rp_pc = "loop"
    /\ rp_i > Len(features) \/ Break
    /\ cubics' = IF last_cubic # None /\ first_cubic # None
                 THEN Append(cubics, closing_cubic(last_cubic[1], first_cubic[1]))
                 ELSE Append(cubics, <<center, center, center, center>>)
    /\ rp_pc' = "returned"
    /\ UNCHANGED <<features, center, first_cubic, last_cubic, first_feature_split_start,
                   first_feature_split_end, rp_i, rp_j, notPolygonVars>>

(***************************************************************************)
(* RoundedPolygon::from_vertices (rounded_polygon.rs).  The raw array      *)
(* holds x0, y0, x1, y1, ...                                               *)
(***************************************************************************)

\* The vertices of the polygons, counter-clockwise: a rectangle, the same
\* with a vertex in the middle of a side, an L with one concave corner, and a
\* right triangle of sides 900, 1200 and 1500
VertexPolygons ==
    { <<0, 0, 1000, 0, 1000, 400, 0, 400>>,
      <<0, 0, 500, 0, 1000, 0, 1000, 400, 0, 400>>,
      <<0, 0, 1000, 0, 1000, 400, 400, 400, 400, 1000, 0, 1000>>,
      <<0, 0, 1200, 0, 0, 900>> }

\* The raw arrays given to from_vertices: the polygons, whose sides all have
\* a whole number of units for length, and the beginnings of them that are
\* short of three vertices or of odd length
VertexArrays ==
    UNION { {SubSeq(q, 1, k) : k \in {j \in 0..Len(q) : j < 6 \/ j % 2 = 1 \/ j = Len(q)}} :
            q \in VertexPolygons }

\* The roundings: none, a radius alone, radius and smoothing, a smoothing
\* without radius, and a radius below DISTANCE_EPSILON
Roundings ==
    { UNROUNDED,
      CornerRounding(300, 0),
      CornerRounding(400, VEC_ONE \div 2),
      CornerRounding(200, VEC_ONE \div 2),
      CornerRounding(0, VEC_ONE \div 2),
      CornerRounding(COORD_EPSILON \div 2, 0) }

\* The roundings given for all vertices
CommonRoundings == {UNROUNDED, CornerRounding(300, 0), CornerRounding(200, VEC_ONE \div 2)}

\* Longest list of roundings per vertex
MaxRoundings == 7

\* The lists of roundings per vertex: none, or two roundings in turn
PerVertexRoundings ==
    {<<>>} \cup
    { [k \in 1..len |-> IF k % 2 = 1 THEN a ELSE b] :
          a \in Roundings, b \in {UNROUNDED, CornerRounding(600, VEC_ONE \div 2)},
          len \in 1..MaxRoundings }

\* f32::MIN, which stands for "no center given"
F32_MIN == 0 - F32_MAX

\* The centers given to from_vertices
CenterArgs == {<<250, 100>>, <<F32_MIN, F32_MIN>>}

VerticesIdle ==
    /\ vertices = <<>>
    /\ rounding = UNROUNDED
    /\ per_vertex_rounding = <<>>
    /\ center_arg = <<0, 0>>
    /\ rounded_corners = <<>>
    /\ cut_adjusts = <<>>
    /\ allowed_cuts = <<>>
    /\ corners = <<>>
    /\ fv_pc = "idle"

\* from_vertices(raw, common, per_vertex, c) up to the end of its first
\* loop: the three assertions, then the rounded corners
FromVertices(raw, common, per_vertex, c) ==
    /\ fv_pc = "idle"
    /\ vertices' = raw
    /\ rounding' = common
    /\ per_vertex_rounding' = per_vertex
    /\ center_arg' = c
    /\ IF ~(Len(raw) >= 6)
       THEN fv_pc' = "abort_few" /\ rounded_corners' = rounded_corners
       ELSE IF ~(Len(raw) % 2 # 1)
       THEN fv_pc' = "abort_odd" /\ rounded_corners' = rounded_corners
       ELSE IF ~(Len(per_vertex) = 0 \/ Len(per_vertex) * 2 = Len(raw))
       THEN fv_pc' = "abort_rounding" /\ rounded_corners' = rounded_corners
       ELSE /\ rounded_corners' = rounded_corners_of(raw, common, per_vertex)
            /\ fv_pc' = "rounded"
    /\ UNCHANGED <<cut_adjusts, allowed_cuts, corners, notVerticesVars>>

\* cut_adjusts = (0..n).map(...).collect()
CutAdjusts ==
    /\ fv_pc = "rounded"
    /\ cut_adjusts' = cut_adjusts_of(vertices, rounded_corners)
    /\ fv_pc' = "adjusted"
    /\ UNCHANGED <<vertices, rounding, per_vertex_rounding, center_arg, rounded_corners,
                   allowed_cuts, corners, notVerticesVars>>

\* The loop that asks every rounded corner for its cubics, within the cuts
\* it is allowed on its two sides; get_cubics sets the center of the corner
GetCubics ==
    /\ fv_pc = "adjusted"
    /\ allowed_cuts' = allowed_cuts_of(rounded_corners, cut_adjusts)
    /\ rounded_corners' = corners_of(rounded_corners, allowed_cuts')
    /\ corners' = [k \in 1..Len(rounded_corners) |-> rounded_corners'[k].cubics]
    /\ fv_pc' = "cut"
    /\ UNCHANGED <<vertices, rounding, per_vertex_rounding, center_arg, cut_adjusts,
                   notVerticesVars>>

\* The loop that makes the features, and the center: the one given, or the
\* mean of the vertices when a coordinate of it is f32::MIN
TempFeatures ==
    /\ fv_pc = "cut"
    /\ features' = temp_features_of(vertices, corners)
    /\ center' = IF center_arg[1] = F32_MIN \/ center_arg[2] = F32_MIN
                 THEN center_from_vertices(vertices)
                 ELSE center_arg
    /\ fv_pc' = "features"
    /\ UNCHANGED <<vertices, rounding, per_vertex_rounding, center_arg, rounded_corners,
                   cut_adjusts, allowed_cuts, corners, cubics, first_cubic, last_cubic,
                   first_feature_split_start, first_feature_split_end, rp_i, rp_j, rp_pc,
                   mapperVars, morphVars, asCubicsVars, featureMapperVars, pathVars>>

\* Self::new(temp_features, center), the last expression of from_vertices
FromVerticesNew ==
    /\ fv_pc = "features"
    /\ PolygonNew(center)

\* The numbers of vertices per radius of the stars, and the radius and the
\* inner radius they are given (with_radius, with_inner_radius): one
\* hundredth of the radii 1.0 and 0.5 that star() sets
StarSizes == {1, 2, 3, 4, 6}

STAR_RADIUS == COORD_ONE \div 100

STAR_INNER_RADIUS == STAR_RADIUS \div 2

\* RoundedPolygon::star(n).with_radius(..).with_inner_radius(..).build(): no
\* rounding, no rounding per vertex, no inner rounding, the center zero
StarBuild ==
    /\ fv_pc = "idle"
    /\ \E n \in StarSizes :
           FromVertices(star_vertices_from_num_verts(n, STAR_RADIUS, STAR_INNER_RADIUS, <<0, 0>>),
                        UNROUNDED, <<>>, <<0, 0>>)

\* A caller calls from_vertices, once
CallFromVertices ==
    /\ fv_pc = "idle"
    /\ \E raw \in VertexArrays, common \in CommonRoundings,
          per_vertex \in PerVertexRoundings, c \in CenterArgs :
           FromVertices(raw, common, per_vertex, c)

(***************************************************************************)
(* DoubleMapper::from_features called on two lists of features with their *)
(* progress                                                                *)
(***************************************************************************)

\* What a feature of a list is: a convex corner, a corner that is not convex
\* or an edge
FeatureKinds == {"convex", "concave", "edge"}

\* The progress of the features of a list: apart, wrapping around, two of
\* them closer than DISTANCE_EPSILON, two of them the same
ProgressLayouts ==
    { <<ONE \div 10, 4 * (ONE \div 10), 7 * (ONE \div 10)>>,
      <<6 * (ONE \div 10), 9 * (ONE \div 10), 2 * (ONE \div 10)>>,
      <<ONE \div 10, ONE \div 10 + DISTANCE_EPSILON \div 2, 7 * (ONE \div 10)>>,
      <<4 * (ONE \div 10), 4 * (ONE \div 10), 8 * (ONE \div 10)>> }

\* Where the features of a list lie
PointLayouts ==
    { <<<<0, 0>>, <<100, 0>>, <<100, 100>>>>,
      <<<<90, 90>>, <<10, 0>>, <<100, 10>>>> }

\* The feature of a kind at a point: a corner that is the point, or an edge
\* that starts there
FeatureAt(kind, point) ==
    IF kind = "edge" THEN edge(<<straight_line(point, plus(point, <<10, 0>>))>>)
    ELSE corner(<<straight_line(point, point)>>, kind = "convex")

\* The lists of ProgressableFeature with their points taken from a layout
FeatureLists(points) ==
    UNION { { [k \in 1..len |-> [progress |-> layout[k], feature |-> FeatureAt(kinds[k], points[k])]] :
                  kinds \in [1..len -> FeatureKinds], layout \in ProgressLayouts } :
            len \in 0..Len(points) }

FeatureMapperIdle ==
    /\ features1 = <<>>
    /\ features2 = <<>>
    /\ mapping_helper = NewHelper
    /\ fm_pc = "idle"

\* DoubleMapper::from_features(fs1, fs2): the panic of add_mapping, or
\* DoubleMapper::new on the mapping, which may abort
FromFeatures(fs1, fs2) ==
    LET h == from_features(fs1, fs2)
        built == ~h.panicked /\ new_outcome(h.mapping) = "ok"
    IN  /\ fm_pc = "idle"
        /\ pc = "idle"
        /\ dmState = "input"
        /\ mappings = <<>>
        /\ features1' = fs1
        /\ features2' = fs2
        /\ mapping_helper' = h
        /\ mappings' = IF h.panicked THEN mappings ELSE h.mapping
        /\ dm' = IF built THEN [source_values |-> source_of(h.mapping),
                                target_values |-> target_of(h.mapping)]
                 ELSE NoMapper
        /\ dmState' = IF built THEN "built" ELSE "aborted"
        /\ fm_pc' = IF h.panicked THEN "panicked" ELSE IF built THEN "returned" ELSE "aborted"
        /\ UNCHANGED <<first, second, notFeatureMapperVars>>

\* A caller calls from_features, once
CallFromFeatures ==
    /\ fm_pc = "idle"
    /\ \E fs1 \in FeatureLists(CHOOSE points \in PointLayouts : points[1] = <<0, 0>>),
          points \in PointLayouts :
           \E fs2 \in FeatureLists(points) : FromFeatures(fs1, fs2)

(***************************************************************************)
(* path_from_cubics(path, start_angle, repeat_path, close_path, cubics,    *)
(* rotation_pivot), a call of the path at a time                           *)
(***************************************************************************)

\* Most cubics of a list that is made into a path
MaxPathCubics == 3

\* The cubics of the lists: two that join, and one apart from them
PathCubicChoices ==
    { straight_line(<<0, 0>>, <<300, 0>>),
      <<<<300, 0>>, <<360, 0>>, <<400, 40>>, <<400, 100>>>>,
      straight_line(<<50, 50>>, <<0, 0>>) }

PathCubicLists == UNION {[1..len -> PathCubicChoices] : len \in 0..MaxPathCubics}

\* The start angles: none, and a quarter of a turn in degrees
StartAngles == {0, 90}

PathIdle ==
    /\ path = <<>>
    /\ start_angle = 0
    /\ repeat_path = FALSE
    /\ close_path = FALSE
    /\ path_cubics = <<>>
    /\ rotation_pivot = <<0, 0>>
    /\ path_first = TRUE
    /\ path_first_cubic = None
    /\ first_in_repeat = TRUE
    /\ path_i = 0
    /\ path_pc = "idle"

\* The call, on a new path: the locals are set and the path is rewound
PathFromCubics(angle, repeat, closing, list, pivot) ==
    /\ path_pc = "idle"
    /\ start_angle' = angle
    /\ repeat_path' = repeat
    /\ close_path' = closing
    /\ path_cubics' = list
    /\ rotation_pivot' = pivot
    /\ path_first' = TRUE
    /\ path_first_cubic' = None
    /\ path' = Append(path, rewind)
    /\ path_i' = 0
    /\ path_pc' = "loop"
    /\ UNCHANGED <<first_in_repeat, notPathVars>>

CallPathFromCubics ==
    /\ path_pc = "idle"
    /\ \E angle \in StartAngles, repeat \in BOOLEAN, closing \in BOOLEAN,
          list \in PathCubicLists, pivot \in {<<0, 0>>, <<100, 100>>} :
           PathFromCubics(angle, repeat, closing, list, pivot)

\* One turn of the first loop, or its end
FirstLoop ==
    /\ path_pc = "loop"
    /\ IF path_i < Len(path_cubics)
       THEN /\ path' = path \o first_loop_calls(At(path_cubics, path_i), path_first)
            /\ path_first_cubic' = IF path_first /\ start_angle # 0
                                   THEN Some(At(path_cubics, path_i))
                                   ELSE path_first_cubic
            /\ path_first' = FALSE
            /\ path_i' = path_i + 1
            /\ UNCHANGED <<path_pc, first_in_repeat>>
       ELSE /\ path_pc' = IF repeat_path THEN "repeat" ELSE "close"
            /\ first_in_repeat' = TRUE
            /\ path_i' = 0
            /\ UNCHANGED <<path, path_first, path_first_cubic>>
    /\ UNCHANGED <<start_angle, repeat_path, close_path, path_cubics, rotation_pivot, notPathVars>>

\* One turn of the second loop, or its end
RepeatLoop ==
    /\ path_pc = "repeat"
    /\ IF path_i < Len(path_cubics)
       THEN /\ path' = path \o repeat_loop_calls(At(path_cubics, path_i), first_in_repeat)
            /\ first_in_repeat' = FALSE
            /\ path_i' = path_i + 1
            /\ UNCHANGED path_pc
       ELSE /\ path_pc' = "close"
            /\ UNCHANGED <<path, first_in_repeat, path_i>>
    /\ UNCHANGED <<start_angle, repeat_path, close_path, path_cubics, rotation_pivot, path_first,
                   path_first_cubic, notPathVars>>

\* close() if it is asked for, and the transformed path returned
ClosePath ==
    /\ path_pc = "close"
    /\ path' = (IF close_path THEN Append(path, close) ELSE path)
                    \o <<IF start_angle # 0 /\ path_first_cubic # None
                         THEN transformed_rotation(minus(anchor0(At(path_cubics, 0)), rotation_pivot),
                                                   start_angle)
                         ELSE transformed_identity>>
    /\ path_pc' = "returned"
    /\ UNCHANGED <<start_angle, repeat_path, close_path, path_cubics, rotation_pivot, path_first,
                   path_first_cubic, first_in_repeat, path_i, notPathVars>>

(***************************************************************************)
(* The specifications                                                      *)
(***************************************************************************)

\* Nothing has been called yet
Idle ==
    /\ MapperIdle
    /\ MorphIdle
    /\ AsCubicsIdle
    /\ PolygonIdle
    /\ VerticesIdle
    /\ FeatureMapperIdle
    /\ PathIdle

InitMapper == Idle

NextMapper ==
    \/ \E s \in MappingValues, t \in MappingValues : AddMapping(s, t)
    \/ \E s \in StrayValues : AddMapping(s, HALF)
    \/ \E t \in StrayValues : AddMapping(HALF, t)
    \/ Construct
    \/ Identity
    \/ \E x \in Samples \cup OutOfRange : Map(x)
    \/ \E x \in Samples \cup OutOfRange : MapBack(x)
    \/ MapOfResult
    \/ MapBackOfResult
    \/ \E o \in MeasuredOutlines : MeasuredPolygonNew(o)
    \/ \E c \in CuttingPoints : CutAndShiftCall(c)

SpecMapper == InitMapper /\ [][NextMapper]_vars

InitMorph == Idle

NextMorph ==
    \/ \E s \in MorphMappingValues, t \in MorphMappingValues : AddMapping(s, t)
    \/ Construct
    \/ \E o1 \in Outlines, o2 \in Outlines : Measure(o1, o2)
    \/ CutAndShift
    \/ LoopTest
    \/ SweepStep
    \/ Finish

SpecMorph == InitMorph /\ [][NextMorph]_vars

\* match_morph runs on: the loop test, the body and the assertion after the
\* loop are taken when they can be
\* SweepStep is enabled exactly when control is in the body of the loop, and
\* each of its steps leaves the body: to the next test, or to the panic of
\* the mapper. SweepReturns is SweepStep seen on pc alone.
SweepReturns == pc = "body" /\ pc' \in {"test", "abort_range"}

FairMorph == SpecMorph /\ WF_vars(LoopTest) /\ WF_pc(SweepReturns) /\ WF_vars(Finish)

InitMorphNew == Idle

NextMorphNew ==
    \/ \E p1 \in Polygons, p2 \in Polygons : MorphNew(p1, p2)
    \/ CutAndShift
    \/ LoopTest
    \/ SweepStep
    \/ Finish

SpecMorphNew == InitMorphNew /\ [][NextMorphNew]_vars

InitAsCubics == Idle

NextAsCubics ==
    \/ \E c1 \in StartCubics, c2 \in EndCubics : AddPair(c1, c2)
    \/ \E t \in Progresses : AsCubics(t)
    \/ AsCubicsStep
    \/ AsCubicsReturn

SpecAsCubics == InitAsCubics /\ [][NextAsCubics]_vars

InitPolygon == Idle

NextPolygon ==
    \/ \E f \in FeatureChoices : AddFeature(f)
    \/ \E c \in Centers : PolygonNew(c)
    \/ FlattenCubic
    \/ NextFeature
    \/ PolygonReturn

SpecPolygon == InitPolygon /\ [][NextPolygon]_vars

InitVertices == Idle

NextVertices ==
    \/ CallFromVertices
    \/ StarBuild
    \/ CutAdjusts
    \/ GetCubics
    \/ TempFeatures
    \/ FromVerticesNew
    \/ FlattenCubic
    \/ NextFeature
    \/ PolygonReturn

SpecVertices == InitVertices /\ [][NextVertices]_vars

InitFeatures == Idle

NextFeatures == CallFromFeatures

SpecFeatures == InitFeatures /\ [][NextFeatures]_vars

InitPath == Idle

NextPath ==
    \/ CallPathFromCubics
    \/ FirstLoop
    \/ RepeatLoop
    \/ ClosePath

SpecPath == InitPath /\ [][NextPath]_vars

(***************************************************************************)
(* Claims about DoubleMapper, checked under SpecMapper                     *)
(***************************************************************************)

\* The cyclic predecessor of index i (0-based) in an array of n values
CyclicPrev(i, n) == (i + n - 1) % n

CircularDistance(a, b) ==
    IF Abs(a - b) <= ONE - Abs(a - b) THEN Abs(a - b) ELSE ONE - Abs(a - b)

\* What the data model asks of one array of a DoubleMapper
ValidArray(p) ==
    LET n == Len(p) IN
    /\ \A i \in 0..(n - 1) : 0 <= At(p, i) /\ At(p, i) < ONE
    /\ \A i \in 0..(n - 1) :
           CircularDistance(At(p, i), At(p, CyclicPrev(i, n))) > DISTANCE_EPSILON
    /\ Cardinality({i \in 0..(n - 1) : At(p, i) < At(p, CyclicPrev(i, n))}) <= 1

Constructed == dmState \in {"built", "call_aborted"}

\* C6: DoubleMapper::new returns a mapper exactly when both the source and
\* the target array have every value in [0,1), every cyclically adjacent
\* pair more than DISTANCE_EPSILON apart on the circle, and at most one
\* decrease when read cyclically; otherwise it aborts.
C6_NewReturnsIffValid ==
    dmState # "input" =>
        (Constructed <=> (ValidArray(source_of(mappings)) /\ ValidArray(target_of(mappings))))

\* C6 witness: a three-pair list whose source array wraps inside the array
\* was accepted.
C6_Witness ==
    /\ dmState = "built"
    /\ Len(mappings) = 3
    /\ \E i \in 1..2 : mappings[i + 1][1] < mappings[i][1]

\* C7: every mapper that construction returns holds at least 2 pairs.
C7_AtLeastTwoPairs ==
    Constructed => Len(dm.source_values) >= 2

Calls == {c \in {first, second} : c # NoCall}

\* C8: on a valid mapper map_back(map(x)) is within EPSILON of x for every
\* x that is no breakpoint, and map(map_back(y)) within EPSILON of y.  (The
\* difference is taken on the circle, and the end point 1.0, which is
\* progress 0 again, is left out.)
C8_RoundTrip ==
    (/\ dmState = "built"
     /\ first # NoCall
     /\ second # NoCall
     /\ first.op # second.op
     /\ second.arg = first.res
     /\ first.arg < ONE
     /\ \A i \in 1..Len(mappings) :
            first.arg # (IF first.op = "map" THEN mappings[i][1] ELSE mappings[i][2]))
    => CircularDistance(second.res, first.arg) < EPSILON

\* C9 (as claimed): on the identity mapper map(x) is within EPSILON of x for
\* every x in [0,1], both ends included.
C9_IdentityOnClosedInterval ==
    (dmState = "built" /\ mappings = identity_mappings) =>
        \A c \in Calls : c.op = "map" => Abs(c.res - c.arg) < EPSILON

\* C9 (amended): on the identity mapper map(x) is within EPSILON of x for
\* every x in [0,1), and map(1) is 0: equal to x modulo 1.
C9_IdentityModuloOne ==
    (dmState = "built" /\ mappings = identity_mappings) =>
        \A c \in Calls : c.op = "map" =>
            IF c.arg < ONE THEN Abs(c.res - c.arg) < EPSILON ELSE c.res = 0

\* C9 witness: map(1.0) was called on the identity mapper and returned 0.
C9_Witness ==
    /\ dmState = "built"
    /\ mappings = identity_mappings
    /\ first.op = "map"
    /\ first.arg = ONE
    /\ first.res = 0

\* The offset of the first pair of a mapper
OffsetOf(m) == (m[1][2] - m[1][1]) % ONE

\* Every pair has target = (source + d) mod 1
IsOffsetMapping(m, d) ==
    \A i \in 1..Len(m) : m[i][2] = (m[i][1] + d) % ONE

\* C10: a mapper whose every pair has target = (source + d) mod 1 maps every
\* x in [0,1) to (x + d) mod 1 and maps back every y in [0,1) to
\* (y - d) mod 1 (up to the tests' EPSILON, on the circle).
C10_OffsetMapping ==
    (dmState = "built" /\ Len(mappings) >= 2 /\ IsOffsetMapping(mappings, OffsetOf(mappings))) =>
        \A c \in Calls : c.arg < ONE =>
            IF c.op = "map"
            THEN CircularDistance(c.res, (c.arg + OffsetOf(mappings)) % ONE) < EPSILON
            ELSE CircularDistance(c.res, (c.arg - OffsetOf(mappings)) % ONE) < EPSILON

(***************************************************************************)
(* Claims about the morph sweep, checked under SpecMorph                   *)
(***************************************************************************)

\* C1: the sweep leaves its loop with both sides exhausted in the same
\* iteration: when the loop condition fails, neither side still holds a
\* cubic (and the assertion after the loop does not fire).
C1_BothSidesExhaustTogether ==
    pc \in {"exit", "done", "unmatched"} => (t1 = None /\ t2 = None /\ pc # "unmatched")

\* C2: every progress handed to map or map_back during the sweep lies in
\* [0,1]: Morph construction never aborts with an out-of-range progress.
C2_NoProgressOutOfRange ==
    pc # "abort_range"

(***************************************************************************)
(* Claims about Morph::new, checked under SpecMorphNew                     *)
(***************************************************************************)

\* C4: a Morph from a polygon to the same polygon holds equal cubics in
\* every matched pair.
C4_SelfMorphPairsEqual ==
    (pc = "done" /\ start # <<>> /\ start = end) =>
        \A k \in 1..Len(ret) : ret[k][1] = ret[k][2]

(***************************************************************************)
(* Claims about Morph::as_cubics, checked under SpecAsCubics               *)
(***************************************************************************)

\* C3: as_cubics(t) on a Morph of k pairs returns k cubics in the order of
\* the pairs; every point of every cubic is the lerp of the pair's points at
\* t, but for the last cubic's anchor1, which is the first returned cubic's
\* anchor0; with no pair the result is empty.
C3_AsCubicsLerpedAndStitched ==
    as_pc = "returned" =>
        /\ Len(as_cubics) = Len(match)
        /\ \A k \in 1..Len(match) : \A it \in 1..4 :
               as_cubics[k][it] =
                   IF k = Len(match) /\ it = 4
                   THEN anchor0(as_cubics[1])
                   ELSE lerp(match[k][1][it], match[k][2][it], progress)

\* C3 witness: as_cubics(0.5) returned three cubics, and the lerp of the
\* last pair's anchor1 is not the first cubic's anchor0.
C3_Witness ==
    /\ as_pc = "returned"
    /\ Len(match) = MaxMatch
    /\ progress = HALF
    /\ lerp(match[MaxMatch][1][4], match[MaxMatch][2][4], progress) # anchor0(as_cubics[1])

(***************************************************************************)
(* Claims about RoundedPolygon::new, checked under SpecPolygon             *)
(***************************************************************************)

\* C5: the flattened list of a polygon that RoundedPolygon::new returns is
\* not empty, and its last cubic's anchor1 is its first cubic's anchor0.
C5_CubicsClosed ==
    rp_pc = "returned" =>
        /\ Len(cubics) >= 1
        /\ anchor1(cubics[Len(cubics)]) = anchor0(cubics[1])

\* C5 witness: a polygon of three features was returned whose list holds two
\* cubics or more, and whose last cubic did not end on the first one's
\* anchor0 before the closing cubic was made.
C5_Witness ==
    /\ rp_pc = "returned"
    /\ Len(features) = MaxFeatures
    /\ Len(cubics) >= 2
    /\ anchor1(last_cubic[1]) # anchor0(first_cubic[1])

(***************************************************************************)
(* Range checks of the progress arguments (mapper.rs, measured_polygon.rs) *)
(***************************************************************************)

\* The call made last
LastCall == IF second # NoCall THEN second ELSE first

\* x lies in 0.0..=1.0
InUnitRange(x) == 0 <= x /\ x <= ONE

\* C11: map and map_back abort exactly when their argument is below 0 or
\* above 1, and so does cut_and_shift with its cutting point; every argument
\* in [0, 1] is accepted; a mapper that construction returned has no value
\* outside of the range, and where construction aborts no mapper is returned.
C11_RangeChecked ==
    /\ dmState = "call_aborted" => ~InUnitRange(LastCall.arg)
    /\ dmState = "built" => \A c \in Calls : InUnitRange(c.arg)
    /\ pc = "abort_range" => ~InUnitRange(polygon2_cut_point)
    /\ pc = "shifted" => InUnitRange(polygon2_cut_point)
    /\ pc # "abort_empty"
    /\ dmState \in {"built", "call_aborted"} =>
           \A k \in 1..Len(mappings) : InUnitRange(mappings[k][1]) /\ InUnitRange(mappings[k][2])
    /\ dmState = "aborted" => dm = NoMapper

(***************************************************************************)
(* Claims about RoundedPolygon::from_vertices, checked under SpecVertices  *)
(***************************************************************************)

\* from_vertices stopped at one of its three assertions
FvAborted == fv_pc \in {"abort_few", "abort_odd", "abort_rounding"}

\* The arguments the three assertions are about
FewVertices == Len(vertices) \div 2 < 3

OddLength == Len(vertices) % 2 = 1

OtherLength == per_vertex_rounding # <<>> /\ Len(per_vertex_rounding) # Len(vertices) \div 2

\* C12: from_vertices aborts, with no corner built, exactly when the raw
\* array has fewer than 3 vertices or an odd length or the list of roundings
\* per vertex is not empty and not as long as the list of vertices; with an
\* empty list every corner is built with the common rounding.
C12_ArgumentsChecked ==
    fv_pc # "idle" =>
        /\ FvAborted <=> (FewVertices \/ OddLength \/ OtherLength)
        /\ FvAborted => rounded_corners = <<>> /\ corners = <<>> /\ features = <<>>
        /\ ~FvAborted =>
               /\ Len(rounded_corners) = Len(vertices) \div 2
               /\ per_vertex_rounding = <<>> =>
                      \A k \in 1..Len(rounded_corners) :
                          /\ rounded_corners[k].corner_radius = rounding.radius
                          /\ rounded_corners[k].smoothing = rounding.smoothing

\* Three vertices or more and an even length, and a list of roundings that
\* is too long: the third assertion stopped the call
C12_Witness ==
    /\ fv_pc = "abort_rounding"
    /\ ~FewVertices
    /\ Len(per_vertex_rounding) > Len(vertices) \div 2

\* The corners are built
CornersBuilt == fv_pc \notin {"idle", "rounded", "adjusted"} /\ ~FvAborted

\* The number of vertices
NumVertices == Len(vertices) \div 2

\* The square of the distance of two points
DistanceSquared(p, q) == (p[1] - q[1]) * (p[1] - q[1]) + (p[2] - q[2]) * (p[2] - q[2])

\* The side from vertex i (0-based) to the next one: its two ends and the
\* cuts their corners are allowed on it
SideFrom(i) ==
    LET j == (i + 1) % NumVertices
    IN  [from |-> vertex(vertices, i),
         to |-> vertex(vertices, j),
         cut_from |-> At(allowed_cuts, i)[2],
         cut_to |-> At(allowed_cuts, j)[1],
         anchor_from |-> anchor1(At(corners, i)[Len(At(corners, i))]),
         anchor_to |-> anchor0(At(corners, j)[1])]

Arbitration(i) ==
    LET j == (i + 1) % NumVertices
        side == SideFrom(i)
    IN  [L |-> sqrt(DistanceSquared(side.from, side.to)),
         erc_from |-> At(rounded_corners, i).expected_round_cut,
         erc_to |-> At(rounded_corners, j).expected_round_cut,
         ec_from |-> expected_cut(At(rounded_corners, i)),
         ec_to |-> expected_cut(At(rounded_corners, j)),
         other_from |-> At(allowed_cuts, i)[1],
         other_to |-> At(allowed_cuts, j)[2],
         rounded_from |-> Len(At(corners, i)) = 3,
         rounded_to |-> Len(At(corners, j)) = 3]

\* q is num / den rounded down to the grid
IsQuotient(q, num, den) == den * q <= num /\ num < den * (q + 1)

\* p and q are one point, to within the rounding of two cuts
Near(p, q) == Abs(p[1] - q[1]) <= 2 /\ Abs(p[2] - q[2]) <= 2

\* The cuts of the side from vertex i, as the three cases of the arbitration
\* give them
CutsArbitrated(i) ==
    LET side == SideFrom(i)
        a == Arbitration(i)
        rc == a.erc_from + a.erc_to
        ec == a.ec_from + a.ec_to
    IN  /\ rc > a.L =>
               /\ IsQuotient(side.cut_from, a.erc_from * a.L, rc)
               /\ IsQuotient(side.cut_to, a.erc_to * a.L, rc)
        /\ (rc <= a.L /\ a.L < ec) =>
               /\ IsQuotient(side.cut_from - a.erc_from,
                             (a.ec_from - a.erc_from) * (a.L - rc), ec - rc)
               /\ IsQuotient(side.cut_to - a.erc_to,
                             (a.ec_to - a.erc_to) * (a.L - rc), ec - rc)
        /\ ec <= a.L =>
               /\ side.cut_from = a.ec_from
               /\ side.cut_to = a.ec_to

\* The edge of the side from vertex i has both anchors at one point, the
\* middle of the side when both corners ask for the same round cut
EdgeDegenerate(i) ==
    LET side == SideFrom(i)
        a == Arbitration(i)
        middle == <<(side.from[1] + side.to[1]) \div 2, (side.from[2] + side.to[2]) \div 2>>
    IN  /\ Near(side.anchor_from, side.anchor_to)
        /\ a.erc_from = a.erc_to => Near(side.anchor_from, middle)

\* Both corners of the side from vertex i are rounded and neither is allowed
\* less on its other side than on this one
BothUseTheirCut(i) ==
    LET side == SideFrom(i)
        a == Arbitration(i)
    IN  /\ a.rounded_from /\ a.other_from >= side.cut_from
        /\ a.rounded_to /\ a.other_to >= side.cut_to

\* The side from vertex i is too short for the round cuts of its corners
TooShort(i) ==
    LET a == Arbitration(i) IN a.erc_from + a.erc_to > a.L

\* C14 as stated: rounding goes before smoothing in the three cases of the
\* arbitration, and on every side too short for the round cuts of its two
\* corners the edge between them is degenerate.
C14_SideArbitration ==
    CornersBuilt =>
        \A i \in 0..(NumVertices - 1) :
            /\ CutsArbitrated(i)
            /\ TooShort(i) => EdgeDegenerate(i)

\* C14 amended: the cuts are those of the three cases; on a side too short
\* for the round cuts the edge is degenerate when both corners are rounded
\* and neither is allowed less on its other side (a corner takes the smaller
\* of its two cuts for both sides).
C14_SideArbitrationOfCuts ==
    CornersBuilt =>
        \A i \in 0..(NumVertices - 1) :
            /\ CutsArbitrated(i)
            /\ (TooShort(i) /\ BothUseTheirCut(i)) => EdgeDegenerate(i)

\* A side too short for the round cuts of two corners that both use their
\* cut, one of them asking for smoothing too
C14_Witness ==
    /\ CornersBuilt
    /\ \E i \in 0..(NumVertices - 1) :
           /\ TooShort(i)
           /\ BothUseTheirCut(i)
           /\ Arbitration(i).ec_from > Arbitration(i).erc_from

\* The rounding the caller gave for vertex i (0-based)
RoundingOf(i) ==
    IF per_vertex_rounding # <<>> THEN At(per_vertex_rounding, i) ELSE rounding

\* Corner i is one cubic with all its points on the vertex
IsPoint(i) ==
    LET v == vertex(vertices, i) IN At(corners, i) = <<<<v, v, v, v>>>>

\* Corner i has room: its round cut and the cuts it is allowed on both sides
\* are DISTANCE_EPSILON at least
HasRoom(i) ==
    /\ At(rounded_corners, i).expected_round_cut >= COORD_EPSILON
    /\ At(allowed_cuts, i)[1] >= COORD_EPSILON
    /\ At(allowed_cuts, i)[2] >= COORD_EPSILON

\* C15 as stated: a corner whose rounding has radius 0 or smoothing 0 is one
\* zero-length cubic at the vertex
C15_PointCorner ==
    CornersBuilt =>
        \A i \in 0..(NumVertices - 1) :
            (RoundingOf(i).radius = 0 \/ RoundingOf(i).smoothing = 0) => IsPoint(i)

\* C15 amended: a corner whose rounding has radius 0 is one zero-length cubic
\* at the vertex, whatever its smoothing; a corner with smoothing 0 and a
\* radius of DISTANCE_EPSILON or more is three cubics when it has room.
C15_PointCornerOfRadiusZero ==
    CornersBuilt =>
        \A i \in 0..(NumVertices - 1) :
            /\ RoundingOf(i).radius = 0 => IsPoint(i)
            /\ (RoundingOf(i).smoothing = 0 /\ RoundingOf(i).radius >= COORD_EPSILON /\ HasRoom(i))
                   => Len(At(corners, i)) = 3

\* A polygon with a corner of radius 0, and a corner of some radius and
\* smoothing 0 that has room
C15_Witness ==
    /\ CornersBuilt
    /\ \E i \in 0..(NumVertices - 1) : RoundingOf(i).radius = 0 /\ IsPoint(i)
    /\ \E i \in 0..(NumVertices - 1) :
           /\ RoundingOf(i).smoothing = 0
           /\ RoundingOf(i).radius >= COORD_EPSILON
           /\ HasRoom(i)

\* The features are made
FeaturesMade == CornersBuilt /\ fv_pc # "cut"

\* C16: from_vertices makes two features for each of its n >= 3 vertices, in
\* the order corner 0, edge 0, corner 1, edge 1, ...; a corner holds the one
\* or the three cubics of its rounded corner and an edge exactly one cubic,
\* which is there also when it has no length.
C16_CornerEdgeAlternation ==
    FeaturesMade =>
        /\ NumVertices >= 3
        /\ Len(features) = 2 * NumVertices
        /\ \A i \in 0..(NumVertices - 1) :
               /\ At(features, 2 * i).ty = "Corner"
               /\ At(features, 2 * i).cubics = At(corners, i)
               /\ Len(At(features, 2 * i).cubics) \in {1, 3}
               /\ At(features, 2 * i + 1).ty = "Edge"
               /\ Len(At(features, 2 * i + 1).cubics) = 1

\* The polygon is returned, with an edge of no length and with corners of
\* one and of three cubics among its features
C16_Witness ==
    /\ FeaturesMade
    /\ rp_pc = "returned"
    /\ \E i \in 0..(NumVertices - 1) :
           /\ zero_length(At(features, 2 * i + 1).cubics[1])
           /\ Len(At(features, 2 * i).cubics) = 3
    /\ \E i \in 0..(NumVertices - 1) : Len(At(features, 2 * i).cubics) = 1

\* The cubics of the features, one after the other around the ring
RingCubics == polygon_cubics(features)

\* C17: in every feature built by from_vertices each cubic starts exactly
\* where the one before it ends, every edge starts at the last anchor of the
\* corner before it and ends at the first anchor of the corner after it, and
\* so the features make one closed chain.
C17_FeatureRingContinuous ==
    FeaturesMade =>
        /\ \A k \in 1..Len(features) : \A j \in 1..(Len(features[k].cubics) - 1) :
               anchor1(features[k].cubics[j]) = anchor0(features[k].cubics[j + 1])
        /\ \A i \in 0..(NumVertices - 1) :
               LET before == At(features, 2 * i).cubics
                   between == At(features, 2 * i + 1).cubics
                   after == At(features, (2 * i + 2) % Len(features)).cubics
               IN  /\ anchor0(between[1]) = anchor1(before[Len(before)])
                   /\ anchor1(between[Len(between)]) = anchor0(after[1])
        /\ \A k \in 0..(Len(RingCubics) - 1) :
               anchor1(At(RingCubics, k)) = anchor0(At(RingCubics, (k + 1) % Len(RingCubics)))

\* Features are made in which a corner of three cubics, whose arc is a curve,
\* is followed by an edge that has a length
C17_Witness ==
    /\ FeaturesMade
    /\ \E i \in 0..(NumVertices - 1) :
           /\ Len(At(features, 2 * i).cubics) = 3
           /\ At(features, 2 * i).cubics[2] #
                  straight_line(anchor0(At(features, 2 * i).cubics[2]),
                                anchor1(At(features, 2 * i).cubics[2]))
           /\ ~zero_length(At(features, 2 * i + 1).cubics[1])

\* The cross product (V[i] - V[i-1]) x (V[i+1] - V[i])
Cross(i) ==
    LET n == NumVertices
        before == vertex(vertices, (i + n - 1) % n)
        here == vertex(vertices, i)
        after == vertex(vertices, (i + 1) % n)
    IN  (here[1] - before[1]) * (after[2] - here[2])
            - (here[2] - before[2]) * (after[1] - here[1])

\* Corner i is flagged convex exactly when its cross product is positive
FlagsFollowCross ==
    FeaturesMade =>
        \A i \in 0..(NumVertices - 1) : At(features, 2 * i).convex <=> (Cross(i) > 0)

\* The features are those of star(n)
IsStar(n) ==
    /\ FeaturesMade
    /\ vertices = star_vertices_from_num_verts(n, STAR_RADIUS, STAR_INNER_RADIUS, <<0, 0>>)

\* The corners are by turns convex and not convex
Alternate ==
    \A i \in 0..(NumVertices - 1) :
        At(features, 2 * i).convex # At(features, (2 * i + 2) % Len(features)).convex

\* C18: corner i of from_vertices is flagged convex exactly when the cross
\* product (V[i] - V[i-1]) x (V[i+1] - V[i]) is strictly positive, whatever
\* the rounding, and hence the 2n corners of star(n) are by turns convex and
\* concave.
C18_ConvexFlags ==
    /\ FlagsFollowCross
    /\ \A n \in StarSizes : IsStar(n) => Alternate

\* C18 amended: the flags follow the cross product, and the 2n corners of
\* star(n) are by turns convex and concave when n is at least 4.
C18_ConvexFlagsOfStars ==
    /\ FlagsFollowCross
    /\ \A n \in StarSizes : IsStar(n) /\ n >= 4 => Alternate

\* The polygon of a star of four or more points is returned, with corners
\* that are convex and corners that are not
C18_Witness ==
    /\ \E n \in StarSizes : IsStar(n) /\ n >= 4
    /\ rp_pc = "returned"
    /\ \E i \in 0..(NumVertices - 1) : Cross(i) > 0
    /\ \E i \in 0..(NumVertices - 1) : Cross(i) < 0

\* from_features has returned a mapper
FromFeaturesReturned == fm_pc = "returned"

\* The corners of the two lists
Corners1 == filtered_features(features1)

Corners2 == filtered_features(features2)

\* The pairs of corners of the same convexity, nearest first
CompatiblePairs == sort_by_distance(distance_vertex_list(Corners1, Corners2))

\* The pairs that add_mapping took, in the order it took them
Taken == [k \in 1..Len(mapping_helper.used_f1) |->
             <<mapping_helper.used_f1[k], mapping_helper.used_f2[k]>>]

\* C19: every pair that from_features maps, the identity and the antipode
\* apart, joins a corner of the first list with a corner of the second list
\* of the same convexity; no edge is mapped, and no corner of either list
\* is in more than one pair.
C19_CornersPairedOnce ==
    FromFeaturesReturned =>
        /\ Len(CompatiblePairs) >= 2 =>
               /\ Len(mappings) = Len(Taken)
               /\ \A m \in 1..Len(mappings) :
                      \E k \in 1..Len(Taken) :
                          mappings[m] = <<Taken[k][1].progress, Taken[k][2].progress>>
               /\ \A k \in 1..Len(Taken) :
                      /\ contains(features1, Taken[k][1])
                      /\ contains(features2, Taken[k][2])
                      /\ Taken[k][1].feature.ty = "Corner"
                      /\ Taken[k][2].feature.ty = "Corner"
                      /\ Taken[k][1].feature.convex = Taken[k][2].feature.convex
               /\ \A k, j \in 1..Len(Taken) :
                      k # j => Taken[k][1] # Taken[j][1] /\ Taken[k][2] # Taken[j][2]
        /\ Len(CompatiblePairs) = 1 =>
               \E k1 \in 1..Len(features1), k2 \in 1..Len(features2) :
                   /\ mappings[1] = <<features1[k1].progress, features2[k2].progress>>
                   /\ features1[k1].feature.ty = "Corner"
                   /\ features2[k2].feature.ty = "Corner"
                   /\ features1[k1].feature.convex = features2[k2].feature.convex

\* from_features returns a mapper of a pair of convex corners and a pair of
\* corners that are not convex, from lists that hold an edge and more pairs
\* of the same convexity than it took
C19_Witness ==
    /\ FromFeaturesReturned
    /\ Len(Taken) = 2
    /\ Len(CompatiblePairs) > 2
    /\ Len(Corners1) < Len(features1)
    /\ Taken[1][1].feature.convex # Taken[2][1].feature.convex

\* The antipode of a pair
Antipode(pair) == <<(pair[1] + HALF) % ONE, (pair[2] + HALF) % ONE>>

\* C20: when the two lists have no pair of corners of the same concavity,
\* from_features returns the identity mapping [(0,0),(0.5,0.5)]; when they
\* have exactly one, the mapper holds that pair (s,t) and its antipode
\* ((s+0.5) mod 1, (t+0.5) mod 1).
C20_EdgeCases ==
    fm_pc # "idle" =>
        /\ Len(CompatiblePairs) = 0 =>
               /\ FromFeaturesReturned
               /\ mappings = <<<<0, 0>>, <<HALF, HALF>>>>
               /\ dm = [source_values |-> <<0, HALF>>, target_values |-> <<0, HALF>>]
        /\ Len(CompatiblePairs) = 1 =>
               LET pair == <<CompatiblePairs[1].f1.progress, CompatiblePairs[1].f2.progress>>
               IN  /\ FromFeaturesReturned
                   /\ mappings = <<pair, Antipode(pair)>>
                   /\ dm = [source_values |-> <<pair[1], Antipode(pair)[1]>>,
                            target_values |-> <<pair[2], Antipode(pair)[2]>>]

\* from_features was called on two lists with one pair of corners of the
\* same concavity and with other corners, the antipode wrapping around
C20_Witness ==
    /\ FromFeaturesReturned
    /\ Len(CompatiblePairs) = 1
    /\ Len(Corners1) + Len(Corners2) > 2
    /\ mappings[2][1] < mappings[1][1]

(***************************************************************************)
(* Claims about MeasuredPolygon                                            *)
(***************************************************************************)

\* A MeasuredPolygon has been made, by MeasuredPolygon::new or by
\* cut_and_shift
Measured == pc = "measured" \/ pc = "shifted"

\* C21: in every MeasuredPolygon made by measure_polygon or by cut_and_shift
\* at a cutting point in [0, 1] the first cubic starts at progress 0, the
\* last cubic ends at exactly 1, each cubic ends where the next one starts,
\* and no cubic ends before it starts.
C21_ProgressChained ==
    Measured =>
        /\ Len(bs2) >= 1
        /\ bs2[1].start_outline_progress = 0
        /\ bs2[Len(bs2)].end_outline_progress = ONE
        /\ \A k \in 1..(Len(bs2) - 1) :
               bs2[k].end_outline_progress = bs2[k + 1].start_outline_progress
        /\ \A k \in 1..Len(bs2) : bs2[k].start_outline_progress <= bs2[k].end_outline_progress

\* A polygon of four cubics was cut inside a cubic, less than
\* DISTANCE_EPSILON from its start, and the piece before the cut was dropped
C21_Witness ==
    /\ pc = "shifted"
    /\ polygon2_cut_point = HALF \div 2 + DISTANCE_EPSILON \div 2
    /\ Len(outline2) = 5
    /\ Len(bs2) = 4
    /\ bs2[1].cubic.lo > 0

(***************************************************************************)
(* Claims about path_from_cubics                                           *)
(***************************************************************************)

\* The calls that draw, among the calls the path has received
Draws == SelectSeq(path, LAMBDA c : c.op \in {"move_to", "line_to", "cubic_to", "close"})

\* cubic_to for every cubic of the list, in the order of the list
CubicTos ==
    [k \in 1..Len(path_cubics) |->
        cubic_to(path_cubics[k][2], path_cubics[k][3], path_cubics[k][4])]

\* What the claim has the path receive
ExpectedDraws ==
    (IF path_cubics = <<>> THEN <<>>
     ELSE <<[op |-> "move_to", points |-> <<path_cubics[1][1]>>]>> \o CubicTos
              \o (IF repeat_path
                  THEN <<[op |-> "line_to", points |-> <<path_cubics[1][1]>>]>> \o CubicTos
                  ELSE <<>>))
        \o (IF close_path THEN <<[op |-> "close", points |-> <<>>]>> ELSE <<>>)

IsPrefix(short, long) ==
    Len(short) <= Len(long) /\ short = SubSeq(long, 1, Len(short))

\* C22: for a list of n cubics that is not empty the path receives one
\* move_to(cubics[0].a0), then n cubic_to in the order of the list, then, if
\* repeat is set, one line_to(cubics[0].a0) and the same n cubic_to, then, if
\* close is set, one close, and nothing is drawn after it; for an empty list
\* no move_to, line_to or cubic_to is issued.  The calls received are never
\* taken back, at every moment they are the beginning of that list, and at
\* the return they are all of it.
C22_DrawOrder ==
    /\ [](IsPrefix(Draws, ExpectedDraws))
    /\ [](path_pc = "returned" => Draws = ExpectedDraws)
    /\ [][IsPrefix(path, path')]_vars

\* A path of three cubics is returned, repeated, closed and turned
C22_Witness ==
    /\ path_pc = "returned"
    /\ Len(path_cubics) = 3
    /\ repeat_path
    /\ close_path
    /\ path[Len(path)] # transformed_identity
    /\ Len(Draws) = 9

\* from_features has been called and went through its list with add_mapping
Matched == fm_pc # "idle" /\ Len(CompatiblePairs) >= 2

\* The helper after the first k calls of add_mapping
HelperAfter(k) == add_mappings(NewHelper, SubSeq(CompatiblePairs, 1, k))

\* The number of places where a list of progress, read around, goes down
Wraps(values) ==
    Cardinality({k \in 1..Len(values) : values[(k % Len(values)) + 1] < values[k]})

\* C23: after every add_mapping call of the feature matcher, whether it took
\* the pair or not, the mapping list is strictly increasing in source
\* progress and its target progresses, read cyclically, wrap at most once;
\* a pair that is not taken leaves the list and both lists of used features
\* as they were.
C23_MappingKeptInOrder ==
    Matched =>
        \A k \in 1..Len(CompatiblePairs) :
            LET was == HelperAfter(k - 1)
                is == HelperAfter(k)
            IN  ~is.panicked =>
                    /\ \A j \in 1..(Len(is.mapping) - 1) : is.mapping[j][1] < is.mapping[j + 1][1]
                    /\ Wraps(target_of(is.mapping)) <= 1
                    /\ is.mapping = was.mapping =>
                           is.used_f1 = was.used_f1 /\ is.used_f2 = was.used_f2
                    /\ is.mapping # was.mapping =>
                           /\ Len(is.mapping) = Len(was.mapping) + 1
                           /\ Len(is.used_f1) = Len(was.used_f1) + 1
                           /\ Len(is.used_f2) = Len(was.used_f2) + 1

\* add_mapping was called with two pairs in the list on features not used
\* before, neither closer than DISTANCE_EPSILON to a pair of the list, and
\* did not take the pair
C23_Witness ==
    /\ Matched
    /\ \E k \in 1..Len(CompatiblePairs) :
           LET was == HelperAfter(k - 1)
               dv == CompatiblePairs[k]
           IN  /\ HelperAfter(k) = was
               /\ ~was.panicked
               /\ Len(was.mapping) = 2
               /\ ~contains(was.used_f1, dv.f1)
               /\ ~contains(was.used_f2, dv.f2)
               /\ \A j \in 1..2 :
                      /\ progress_distance(dv.f1.progress, was.mapping[j][1]) >= DISTANCE_EPSILON
                      /\ progress_distance(dv.f2.progress, was.mapping[j][2]) >= DISTANCE_EPSILON

\* The progress of the corners of a list is pairwise distinct
DistinctProgress(corner_list) ==
    \A k, j \in 1..Len(corner_list) : k # j => corner_list[k].progress # corner_list[j].progress

\* C24: for any two feature lists whose corner progresses are in [0, 1) and
\* pairwise distinct within each list, from_features returns a mapper: the
\* list it hands to DoubleMapper::new has at least 2 pairs and passes the
\* validation, also when there are two or more candidate pairs of which the
\* greedy pass takes one only.
C24_FromFeaturesReturns ==
    fm_pc # "idle" /\ DistinctProgress(Corners1) /\ DistinctProgress(Corners2) =>
        /\ FromFeaturesReturned
        /\ Len(mappings) >= 2
        /\ new_outcome(mappings) = "ok"

(***************************************************************************)
(* Claims about the sweep of match_morph                                   *)
(***************************************************************************)

\* The body of the loop pushes a pair
Pushes == pc = "body" /\ pc' = "test"

\* The sweep is over: match_morph returns, or it aborts
SweepOver == pc \in {"done", "unmatched", "abort_range"}

\* C25: the morph sweep terminates for any two measured polygons of n1 and
\* n2 cubics: in every iteration at least one side moves on to its next
\* cubic, a side is split only when the other side ends first and moves on,
\* and so at most n1 + n2 pairs are emitted.
C25_SweepTerminates ==
    /\ [][Pushes => (i1' = i1 + 1 \/ i2' = i2 + 1)]_vars
    /\ [][Pushes /\ i1' = i1 =>
              /\ i2' = i2 + 1
              /\ b1' # None
              /\ b1'[1].start_outline_progress < t1[1].end_outline_progress]_vars
    /\ [][Pushes /\ i2' = i2 =>
              /\ i1' = i1 + 1
              /\ b2' # None
              /\ b2'[1].start_outline_progress < t2[1].end_outline_progress]_vars
    /\ [](Len(ret) <= Len(bs1) + Len(bs2))
    /\ (pc = "test" ~> SweepOver)

\* match_morph returns after a sweep of more than four pairs in which a cubic
\* of each side was split
C25_Witness ==
    /\ pc = "done"
    /\ Len(ret) > 4
    /\ \E k \in 1..Len(ret) : ret[k][1].hi < ONE
    /\ \E k \in 1..Len(ret) : ret[k][2].hi < ONE /\ ret[k][2].lo = 0

(***************************************************************************)
(* Claims about the pair list of match_morph, checked under SpecMorph      *)
(***************************************************************************)

\* The pieces of one side, in the order of the pair list
PiecesOf(pairs, side) == [k \in 1..Len(pairs) |-> pairs[k][side]]

\* The cubics of a measured polygon
MeasuredCubicsOf(measured) == [k \in 1..Len(measured) |-> measured[k].cubic]

\* pieces cut the cubics of the list one after the other: every cubic is
\* there, whole or as pieces that join, in the order of the list
RECURSIVE CutsInOrder(_, _)
CutsInOrder(pieces, cubic_list) ==
    IF cubic_list = <<>> THEN pieces = <<>>
    ELSE IF pieces = <<>> THEN FALSE
    ELSE LET p == Head(pieces)
             c == Head(cubic_list)
         IN  /\ p.src = c.src
             /\ p.lo = c.lo
             /\ p.hi <= c.hi
             /\ IF p.hi = c.hi THEN CutsInOrder(Tail(pieces), Tail(cubic_list))
                ELSE CutsInOrder(Tail(pieces), <<[c EXCEPT !.lo = p.hi]>> \o Tail(cubic_list))

\* What a side still has to give at a loop test: the cubic it holds, then
\* the measured cubics from its index on
Pending(held, measured, index) ==
    (IF held = None THEN <<>> ELSE <<held[1].cubic>>)
        \o MeasuredCubicsOf(SubSeq(measured, index + 1, Len(measured)))

\* C26: every measured cubic of the start polygon and of the shifted end
\* polygon contributes, whole or as pieces, to the pairs, and the pieces of
\* each side come in that side's outline order, none skipped or repeated:
\* at every loop test the pieces pushed so far, followed by what the side
\* still holds, cut the side's measured cubics in order, and the pair list
\* that match_morph returns cuts all of them.
C26_EveryCubicContributes ==
    /\ pc = "test" =>
        /\ CutsInOrder(PiecesOf(ret, 1) \o Pending(b1, bs1, i1), MeasuredCubicsOf(bs1))
        /\ CutsInOrder(PiecesOf(ret, 2) \o Pending(b2, bs2, i2), MeasuredCubicsOf(bs2))
    /\ pc = "done" =>
        /\ CutsInOrder(PiecesOf(ret, 1), MeasuredCubicsOf(bs1))
        /\ CutsInOrder(PiecesOf(ret, 2), MeasuredCubicsOf(bs2))

(***************************************************************************)
(* Claims about cut_and_shift, checked under SpecMapper                    *)
(***************************************************************************)

\* The measured polygon that cut_and_shift was called on
Unshifted == measured_polygon_new(CubicsOf(outline2), outline2)

\* The first measured cubic whose interval contains the cutting point
CutCubic(measured, cutting_point) ==
    CHOOSE k \in 1..Len(measured) :
        /\ measured[k].start_outline_progress <= cutting_point
        /\ cutting_point <= measured[k].end_outline_progress
        /\ \A j \in 1..(k - 1) : ~(/\ measured[j].start_outline_progress <= cutting_point
                                   /\ cutting_point <= measured[j].end_outline_progress)

\* The cubics in the order of the claim, each with the progress at which it
\* ends: the trailing half of the cut cubic, the other cubics in cyclic
\* order from the one after it, the leading half of the cut cubic
Rotated(measured, cutting_point) ==
    LET n == Len(measured)
        k == CutCubic(measured, cutting_point)
        halves == cut_at_progress(measured[k], cutting_point)
    IN  <<[cubic |-> halves[2].cubic,
           breakpoint |-> (measured[k].end_outline_progress - cutting_point) % ONE]>>
        \o [j \in 1..(n - 1) |->
               LET other == measured[((k - 1 + j) % n) + 1]
               IN  [cubic |-> other.cubic,
                    breakpoint |-> (other.end_outline_progress - cutting_point) % ONE]]
        \o <<[cubic |-> halves[1].cubic, breakpoint |-> ONE]>>

\* The pieces of the rotated list that are wider than DISTANCE_EPSILON
WidePieces(rotated) ==
    LET starts_at(j) == IF j = 1 THEN 0 ELSE rotated[j - 1].breakpoint
        Numbered == [j \in 1..Len(rotated) |-> [at |-> j, piece |-> rotated[j]]]
    IN  SelectSeq(Numbered,
                  LAMBDA e : e.piece.breakpoint - starts_at(e.at) > DISTANCE_EPSILON)

\* The measured cubics the claim describes: the wide pieces, from 0 to 1
ShiftedAsClaimed(measured, cutting_point) ==
    LET wide == WidePieces(Rotated(measured, cutting_point))
    IN  [i \in 1..Len(wide) |->
            MeasuredCubic(wide[i].piece.cubic,
                          IF i = 1 THEN 0 ELSE wide[i - 1].piece.breakpoint,
                          IF i = Len(wide) THEN ONE ELSE wide[i].piece.breakpoint)]

\* C27: cut_and_shift(c) with c >= DISTANCE_EPSILON lists the trailing half
\* of the cubic whose interval contains c, then the other cubics in cyclic
\* order from the one after it, then the leading half of the cut cubic,
\* with the breakpoints (end - c) mod 1 between 0 and 1 and without the
\* pieces that are not wider than DISTANCE_EPSILON; with
\* c < DISTANCE_EPSILON the polygon is returned as it was.
C27_CutAndShiftOrder ==
    pc = "shifted" =>
        IF polygon2_cut_point >= DISTANCE_EPSILON
        THEN bs2 = ShiftedAsClaimed(Unshifted, polygon2_cut_point)
        ELSE bs2 = Unshifted

\* A polygon of four cubics was cut inside its third cubic: the list starts
\* with the rest of that cubic and ends with its beginning, five cubics
C27_Witness ==
    /\ pc = "shifted"
    /\ Len(Unshifted) = 4
    /\ polygon2_cut_point = HALF + HALF \div 2
    /\ Len(bs2) = 5
    /\ bs2[1].cubic.src = bs2[5].cubic.src
    /\ bs2[1].cubic.lo = bs2[5].cubic.hi
    /\ bs2[2].cubic.src # bs2[1].cubic.src

\* The features of the polygon that cut_and_shift was called on
UnshiftedFeatures == CornersOf(outline2)

\* The features are the features before the call, each with its progress
\* less the cutting point modulo 1
ShiftedBy(cutting_point) ==
    /\ Len(bs2_features) = Len(UnshiftedFeatures)
    /\ \A i \in 1..Len(bs2_features) :
        /\ bs2_features[i].feature = UnshiftedFeatures[i].feature
        /\ bs2_features[i].progress = (UnshiftedFeatures[i].progress - cutting_point) % ONE
        /\ 0 <= bs2_features[i].progress
        /\ bs2_features[i].progress < ONE

\* C28: cut_and_shift(c) keeps the number, the order, the kind and the
\* cubics of the polygon's features and changes only the progress of each,
\* to (progress - c) mod 1, which stays in [0,1).
C28_FeaturesShifted ==
    pc = "shifted" => ShiftedBy(polygon2_cut_point)

\* C28 as the code has it: with c >= DISTANCE_EPSILON the features keep
\* their number, order, kind and cubics and each progress becomes
\* (progress - c) mod 1 in [0,1); with c < DISTANCE_EPSILON the features
\* are returned as they were, progress included.
C28_FeaturesShiftedFromEpsilon ==
    pc = "shifted" =>
        IF polygon2_cut_point >= DISTANCE_EPSILON
        THEN ShiftedBy(polygon2_cut_point)
        ELSE bs2_features = UnshiftedFeatures

\* A polygon with a corner before the cutting point, whose progress wrapped,
\* and a corner after it
C28_Witness ==
    /\ pc = "shifted"
    /\ polygon2_cut_point >= DISTANCE_EPSILON
    /\ \E i, j \in 1..Len(bs2_features) :
        /\ UnshiftedFeatures[i].progress < polygon2_cut_point
        /\ bs2_features[i].progress = UnshiftedFeatures[i].progress - polygon2_cut_point + ONE
        /\ UnshiftedFeatures[j].progress > polygon2_cut_point
        /\ bs2_features[j].progress = UnshiftedFeatures[j].progress - polygon2_cut_point

(***************************************************************************)
(* Claims about the flattening of RoundedPolygon::new, checked under       *)
(* SpecPolygon                                                             *)
(***************************************************************************)

\* The cubics of a list of features, in order
RECURSIVE FlatCubics(_)
FlatCubics(feature_list) ==
    IF feature_list = <<>> THEN <<>>
    ELSE Head(feature_list).cubics \o FlatCubics(Tail(feature_list))

\* The cubics the loop of RoundedPolygon::new goes through: those of the
\* features, from the middle of the first feature when it has three cubics
InputCubics ==
    IF features # <<>> /\ Len(features[1].cubics) = 3
    THEN LET halves == split_half(features[1].cubics[2])
         IN  <<halves[2], features[1].cubics[3]>> \o FlatCubics(Tail(features))
                 \o <<features[1].cubics[1], halves[1]>>
    ELSE FlatCubics(features)

\* Where the input cubics that have a length are
KeptAt(input) == SelectSeq([k \in 1..Len(input) |-> k], LAMBDA k : ~zero_length(input[k]))

\* The last of the zero-length cubics that follow cubic k without a break,
\* k itself when none does
LastDroppedAfter(input, k) ==
    CHOOSE j \in k..Len(input) :
        /\ \A m \in (k + 1)..j : zero_length(input[m])
        /\ j = Len(input) \/ ~zero_length(input[j + 1])

\* The list the claim describes: the cubics that have a length, each ending
\* on the anchor1 of the last cubic dropped right after it, the last one
\* ending on the first one's anchor0; the center alone when none has a length
FlattenedAsClaimed(input, c) ==
    LET kept == KeptAt(input) IN
    IF kept = <<>> THEN <<<<c, c, c, c>>>>
    ELSE [i \in 1..Len(kept) |->
             [input[kept[i]] EXCEPT ![4] =
                 IF i = Len(kept) THEN anchor0(input[kept[1]])
                 ELSE anchor1(input[LastDroppedAfter(input, kept[i])])]]

\* Each cubic of the ring starts where the one before it ends
Continuous(ring) ==
    \A k \in 1..Len(ring) : anchor1(ring[k]) = anchor0(ring[(k % Len(ring)) + 1])

\* C29: of the cubics RoundedPolygon::new goes through, those of zero length
\* are left out of cubics, and one that is dropped after a kept cubic leaves
\* its anchor1 as the anchor1 of that cubic, whose other points stay; so the
\* cubics of a continuous ring of features join exactly, each anchor1 the
\* next anchor0; and without any cubic of a length the list is the single
\* cubic (center, center, center, center).
C29_ZeroLengthDropped ==
    rp_pc = "returned" =>
        /\ cubics = FlattenedAsClaimed(InputCubics, center)
        /\ Continuous(FlatCubics(features)) =>
               \A i \in 1..(Len(cubics) - 1) : anchor1(cubics[i]) = anchor0(cubics[i + 1])

\* A continuous ring of three features was flattened: a cubic shorter than
\* the epsilon that does not end where it starts was dropped after a kept
\* cubic, which now ends where the dropped one ended
C29_Witness ==
    /\ rp_pc = "returned"
    /\ Len(features) = 3
    /\ Continuous(FlatCubics(features))
    /\ Len(cubics) < Len(InputCubics)
    /\ \E k \in 1..(Len(InputCubics) - 1) :
        /\ ~zero_length(InputCubics[k])
        /\ zero_length(InputCubics[k + 1])
        /\ anchor1(InputCubics[k + 1]) # anchor1(InputCubics[k])
        /\ \E i \in 1..Len(cubics) :
            /\ anchor0(cubics[i]) = anchor0(InputCubics[k])
            /\ anchor1(cubics[i]) = anchor1(InputCubics[k + 1])

(***************************************************************************)
(* Claims about map and map_back, checked under SpecMapper                 *)
(***************************************************************************)

\* y is the linear interpolation, taken modulo 1, at x between two
\* cyclically consecutive breakpoints of the arrays
Interpolates(x_values, y_values, x, y) ==
    \E i \in 1..Len(x_values) :
        LET j == (i % Len(x_values)) + 1
            size_x == (x_values[j] - x_values[i]) % ONE
            size_y == (y_values[j] - y_values[i]) % ONE
        IN  /\ progress_in_range(x, x_values[i], x_values[j])
            /\ size_x > 0
            /\ y = (y_values[i] + MulDiv(size_y, (x - x_values[i]) % ONE, size_x)) % ONE

\* C30: on a valid DoubleMapper, for x in [0,1], map(x) and map_back(x) lie
\* in [0,1); every breakpoint is hit exactly, map(source[i]) = target[i] and
\* map_back(target[i]) = source[i]; and between two cyclically consecutive
\* breakpoints map is the linear interpolation from target[i] to
\* target[i+1] taken modulo 1.
C30_MapInterpolates ==
    (dmState = "built" /\ Len(mappings) >= 2) =>
        \A c \in Calls :
            LET from == IF c.op = "map" THEN dm.source_values ELSE dm.target_values
                to == IF c.op = "map" THEN dm.target_values ELSE dm.source_values
            IN  /\ 0 <= c.res
                /\ c.res < ONE
                /\ \A i \in 1..Len(from) : c.arg = from[i] => c.res = to[i]
                /\ c.op = "map" => Interpolates(from, to, c.arg, c.res)

====
